---- MODULE Spec2Model ----
(***************************************************************************)
(* A model of one room of the card-game server in src/server.py            *)
(* (class GameServer): the lobby (join, toggle_ready, countdown), the      *)
(* round (play_card, draw_card, skip_turn) and the round end               *)
(* (handle_game_end).  The server has no lock: a handler runs atomically  *)
(* from one await that can suspend to the next, so every handler that      *)
(* mutates the room on both sides of such an await is split there.         *)
(*                                                                         *)
(* Representation.  room.players (an insertion-ordered dict) is the        *)
(* sequence players of player ids plus the per-id functions hand, ready,   *)
(* score and is_bot.  A hand is a set (the code only tests membership,     *)
(* appends and removes).  room.deck is a sequence whose last element is    *)
(* the card deck.pop() takes; random.shuffle picks one of the permutations *)
(* Shuffles gives.  A card's uuid is the triple (deck generation, suit,    *)
(* rank), so the cards of two deals never share an id.  Indices are        *)
(* 0-based as in the code.                                                 *)
(***************************************************************************)
EXTENDS Integers, Sequences, FiniteSets, TLC

\* ------------------------------------------------------------- bounds
\* Ids available for seats (the code allows up to MaxPlayers).
MaxSeats == 3
\* Cards dealt to each seat by start_game (the code deals 5).
HandSize == 2
\* Decks that may be created (start_game calls) in one behaviour.
MaxRounds == 1
\* Ticks of one countdown (the code counts 24).
CountdownTicks == 2
\* Countdown tasks that may be created in one behaviour.
MaxTasks == 2
\* Accepted play_card, draw_card and skip_turn requests in one round.
MaxMoves == 5
\* random.shuffle of N cards yields one of the permutations
\* i -> (a * i + b) mod N with a <= MaxStride coprime to N.
MaxStride == 3
\* make_bot_move calls of one bot that may be pending at a time.
MaxBotTasks == 2
\* Cards of the deck and of the discard pile replenish_deck is called with,
\* and the calls in a row.
MaxDeckIn == 2
MaxDiscardIn == 4
MaxCalls == 2

\* -------------------------------------------------- program constants
MaxPlayers == 4
KickScore == 101

Pids == 1 .. MaxSeats
NoPlayer == 0
NoSuit == "none"

Ranks36 == {"6", "7", "8", "9", "10", "J", "Q", "K", "A"}
Ranks52 == {"2", "3", "4", "5"} \cup Ranks36

\* The scaled deck: two of the four suits and four of the ranks of each
\* deck size.
Suits == {"hearts", "spades"}
KeptRanks(deck_size) ==
    IF deck_size = 36 THEN {"6", "7", "8", "A"} ELSE {"2", "8", "9", "Q"}

\* The suits a Queen may declare: those of the scaled deck and one suit no
\* card of it has.
SuitChoices == Suits \cup {"clubs"}

Card(g, s, r) == [suit |-> s, rank |-> r, id |-> <<g, s, r>>]

SuitOrder == <<"hearts", "diamonds", "clubs", "spades">>
RankOrder == <<"2", "3", "4", "5", "6", "7", "8", "9", "10", "J", "Q", "K", "A">>

RECURSIVE Flatten(_)
Flatten(ss) == IF ss = <<>> THEN <<>> ELSE Head(ss) \o Flatten(Tail(ss))

RECURSIVE GCD(_, _)
GCD(a, b) == IF b = 0 THEN a ELSE GCD(b, a % b)

\* The outcomes of random.shuffle(s) the model considers.
Shuffles(s) ==
    LET N == Len(s)
    IN  IF N = 0 THEN {<<>>}
        ELSE {[i \in 1 .. N |-> s[((a * (i - 1) + b) % N) + 1]]
                : a \in {x \in 1 .. MaxStride : x <= N /\ GCD(x, N) = 1},
                  b \in 0 .. N - 1}

\* create_deck before its shuffle: every suit with every rank of the size.
deck_list(deck_size, g) ==
    LET ranks == IF deck_size = 36 THEN Ranks36 ELSE Ranks52
        suits == SelectSeq(SuitOrder, LAMBDA x : x \in Suits)
        kept == SelectSeq(RankOrder, LAMBDA r : r \in ranks \cap KeptRanks(deck_size))
    IN  Flatten([i \in 1 .. Len(suits) |->
                   [j \in 1 .. Len(kept) |-> Card(g, suits[i], kept[j])]])

create_deck(deck_size, g) == Shuffles(deck_list(deck_size, g))

\* A variant of calculate_card_points in which the Q of spades counts as any
\* other Q: C18_Tally tells it from the code.
calculate_card_points_plain_queen(card) ==
    IF card.rank = "Q" THEN 20
    ELSE IF card.rank = "A" THEN 11
    ELSE IF card.rank = "K" THEN 4
    ELSE IF card.rank = "J" THEN 2
    ELSE CHOOSE n \in 2 .. 10 : RankOrder[n - 1] = card.rank

calculate_card_points(card) ==
    CASE card.rank = "2" -> 2
      [] card.rank = "3" -> 3
      [] card.rank = "4" -> 4
      [] card.rank = "5" -> 5
      [] card.rank = "6" -> 6
      [] card.rank = "7" -> 7
      [] card.rank = "8" -> 8
      [] card.rank = "9" -> 9
      [] card.rank = "10" -> 10
      [] card.rank = "J" -> 2
      [] card.rank = "Q" -> IF card.suit = "spades" THEN 40 ELSE 20
      [] card.rank = "K" -> 4
      [] card.rank = "A" -> 11
      [] OTHER -> 0

RECURSIVE calculate_hand_points(_)
calculate_hand_points(h) ==
    IF h = {} THEN 0
    ELSE LET c == CHOOSE x \in h : TRUE
         IN  calculate_card_points(c) + calculate_hand_points(h \ {c})

\* A variant of can_play_card that, with a suit chosen, accepts only that
\* suit: C5_Legality tells it from the code.
can_play_card_suit_only(card, top_card, chosen_suit, waiting_for_eight) ==
    IF waiting_for_eight THEN card.rank = "2"
    ELSE IF card.rank = "Q" THEN TRUE
    ELSE IF chosen_suit # NoSuit THEN card.suit = chosen_suit
    ELSE card.suit = top_card.suit \/ card.rank = top_card.rank

\* The second definition of can_play_card (the one Python keeps).
can_play_card(card, top_card, chosen_suit, waiting_for_eight) ==
    IF waiting_for_eight THEN card.rank = "2"
    ELSE IF card.rank = "Q" THEN TRUE
    ELSE IF chosen_suit # NoSuit
         THEN card.suit = chosen_suit \/ card.rank = top_card.rank
    ELSE card.suit = top_card.suit \/ card.rank = top_card.rank

\* ------------------------------------------------------------- state
VARIABLES
    room_exists,           \* room_id in self.rooms
    players,               \* list(room.players.keys())
    hand, ready, score, is_bot,
    deck, discard_pile,
    current_player_index, dealer_index,
    game_started, chosen_suit,
    waiting_for_eight, card_drawn_this_turn, eight_draw_used,
    eight_drawn_cards,
    countdown_active, countdown_task,
    last_loser_id, deck_size, creator_id, is_private,
    gen,                   \* decks created so far in the behaviour
    moves,                 \* requests accepted in the round so far
    ctask,                 \* the countdown tasks: [pc, secs, cancelled]
    tr_pending,            \* seats whose toggle_ready is suspended in its broadcast
    ge_pc, ge_kick,        \* the handle_game_end of each winner: where it is, whom it kicks
    ge_results,            \* ... and the total_score of each seat in its results
    bot_tasks,             \* per bot: its make_bot_move calls asleep before their checks
    error,                 \* the message of the last error event sent to a client
    final_winner,          \* <<winner_id>> of the final_winner event, <<>> if none was sent
    clients,               \* the player ids self.clients maps a connection to
    reconnect_reply        \* <<message>> last sent by handle_reconnect, <<>> if none was

seatVars == <<players, hand, ready, score, is_bot>>
tableVars == <<deck, discard_pile, current_player_index, dealer_index,
               game_started, chosen_suit, waiting_for_eight,
               card_drawn_this_turn, eight_draw_used, eight_drawn_cards, gen,
               moves>>
lobbyVars == <<countdown_active, countdown_task, ctask, tr_pending>>
roomVars == <<room_exists, last_loser_id, deck_size, creator_id, is_private>>
endVars == <<ge_pc, ge_kick, ge_results>>
botVars == <<bot_tasks>>
replyVars == <<error, final_winner>>
connVars == <<clients, reconnect_reply>>
vars == <<seatVars, tableVars, lobbyVars, roomVars, endVars, botVars, replyVars,
          connVars>>

\* ----------------------------------------------------------- helpers
Seated == {players[i] : i \in 1 .. Len(players)}
PlayerAt(ps, idx) == ps[idx + 1]
IndexOf(ps, p) == (CHOOSE i \in 1 .. Len(ps) : ps[i] = p) - 1
Top(pile) == pile[Len(pile)]
SeqToSet(s) == {s[i] : i \in 1 .. Len(s)}
NoTask == [pc |-> "none", secs |-> 0, cancelled |-> FALSE]
NoError == "none"
NoResults == [p \in Pids |-> 0]

\* ------------------------------------------------------ deck handling
Pop(dk) == dk[Len(dk)]
Popped(dk) == SubSeq(dk, 1, Len(dk) - 1)

\* A variant of replenish_deck that shuffles the top discard in as well:
\* C10_DiscardNonEmpty tells it from the code.
replenish_deck_all(dk, dp) ==
    IF Len(dk) = 0 /\ Len(dp) > 1
    THEN {[deck |-> cards_to_shuffle, discard_pile |-> <<>>, shuffled |-> TRUE]
            : cards_to_shuffle \in Shuffles(dp)}
    ELSE {[deck |-> dk, discard_pile |-> dp, shuffled |-> FALSE]}

\* A variant of replenish_deck that does not look at the deck:
\* C28_Replenish tells it from the code.
replenish_deck_eager(dk, dp) ==
    IF Len(dp) > 1
    THEN {[deck |-> cards_to_shuffle, discard_pile |-> <<Top(dp)>>, shuffled |-> TRUE]
            : cards_to_shuffle \in Shuffles(Popped(dp))}
    ELSE {[deck |-> dk, discard_pile |-> dp, shuffled |-> FALSE]}

\* replenish_deck: with an empty deck and more than one discard, every
\* discard but the top one is shuffled into the new deck.  The outcomes.
replenish_deck(dk, dp) ==
    IF Len(dk) = 0 /\ Len(dp) > 1
    THEN {[deck |-> cards_to_shuffle, discard_pile |-> <<Top(dp)>>, shuffled |-> TRUE]
            : cards_to_shuffle \in Shuffles(Popped(dp))}
    ELSE {[deck |-> dk, discard_pile |-> dp, shuffled |-> FALSE]}

\* The forced draw of a 6 or a 7: k times "replenish, then pop if the deck
\* holds a card".  The set of outcomes [deck, discard_pile, got].
RECURSIVE ForcedDraw(_, _, _, _)
ForcedDraw(k, dk, dp, got) ==
    IF k = 0 THEN {[deck |-> dk, discard_pile |-> dp, got |-> got]}
    ELSE UNION {IF r.deck = <<>>
                THEN ForcedDraw(k - 1, r.deck, r.discard_pile, got)
                ELSE ForcedDraw(k - 1, Popped(r.deck), r.discard_pile,
                                got \cup {Pop(r.deck)})
                  : r \in replenish_deck(dk, dp)}

\* A variant of ForcedDrawCount in which a 7 forces no draw: C4_WinningPlay
\* tells it from the code.
ForcedDrawCount_six_only(rank) == IF rank = "6" THEN 1 ELSE 0

\* A variant of ForcedDrawCount in which a 7 forces one card as a 6 does:
\* C30_FirstCard tells it from the code.
ForcedDrawCount_one_each(rank) == IF rank \in {"6", "7"} THEN 1 ELSE 0

\* The cards the seat after the player takes for a card of this rank.
ForcedDrawCount(rank) == IF rank = "6" THEN 1 ELSE IF rank = "7" THEN 2 ELSE 0

\* ---------------------------------------------------------- start_game
EmptyHands == [p \in Pids |-> {}]

\* The deal: HandSize pops for each seat in turn.
RECURSIVE Deal(_, _, _)
Deal(ps, dk, hands) ==
    IF ps = <<>> THEN [hand |-> hands, deck |-> dk]
    ELSE Deal(Tail(ps), SubSeq(dk, 1, Len(dk) - HandSize),
              [hands EXCEPT ![Head(ps)] =
                  {dk[i] : i \in Len(dk) - HandSize + 1 .. Len(dk)}])

\* The dealer: last round's loser if still seated, else any seat.
Dealers(ps, loser) ==
    IF loser # NoPlayer /\ loser \in SeqToSet(ps)
    THEN {IndexOf(ps, loser)}
    ELSE 0 .. Len(ps) - 1

\* The outcomes of start_game for the seats ps: the deal, the first table
\* card and that card's effect on the seat after the dealer.  The flags the
\* first card does not set keep the values w8, used, suit they had.
start_game(ps, size, g, loser, w8, used, suit) ==
    LET n == Len(ps)
    IN  UNION {UNION {
          LET d == Deal(ps, shuffled, EmptyHands)
              first_card == Pop(d.deck)
              cur == (dealer + 1) % n
              next_player == PlayerAt(ps, cur)
              skip == (cur + 1) % n
          IN  {[hand |-> [d.hand EXCEPT ![next_player] = @ \cup f.got],
                deck |-> f.deck,
                discard_pile |-> f.discard_pile,
                dealer_index |-> dealer,
                current_player_index |->
                    IF first_card.rank \in {"6", "7", "A"} THEN skip ELSE cur,
                waiting_for_eight |->
                    IF first_card.rank = "8" /\ size = 52 THEN TRUE ELSE w8,
                eight_draw_used |->
                    IF first_card.rank = "8" /\ size = 52 THEN FALSE ELSE used,
                chosen_suit |-> cs]
               : f \in ForcedDraw(ForcedDrawCount(first_card.rank),
                                  Popped(d.deck), <<first_card>>, {}),
                 cs \in IF first_card.rank = "Q" THEN SuitChoices ELSE {suit}}
          : dealer \in Dealers(ps, loser)}
          : shuffled \in {x \in create_deck(size, g) : Len(x) >= n * HandSize + 1}}

\* ------------------------------------------------ handle_game_end, tally
queen_bonus(dp) ==
    IF dp # <<>> /\ Top(dp).rank = "Q"
    THEN IF Top(dp).suit = "spades" THEN -40 ELSE -20
    ELSE 0

\* The points each seat takes in the round: its hand for a loser, the
\* Queen bonus for the winner.
round_points(ps, hands, dp, winner_id) ==
    [p \in Pids |->
        IF p \notin SeqToSet(ps) THEN 0
        ELSE IF p = winner_id THEN queen_bonus(dp)
        ELSE calculate_hand_points(hands[p])]

\* The loser of the round: the first seat, in seat order, with the most
\* points among the seats that did not win.
round_loser(ps, pts, winner_id) ==
    LET losers == {i \in 1 .. Len(ps) : ps[i] # winner_id}
    IN  IF losers = {} THEN NoPlayer
        ELSE LET i == CHOOSE i \in losers :
                          /\ \A j \in losers : pts[ps[j]] <= pts[ps[i]]
                          /\ \A j \in losers : j < i => pts[ps[j]] < pts[ps[i]]
             IN  ps[i]

tallied_score(sc, pts, p) == sc[p] + pts[p]

\* total_score of each seat in the results of game_ended: its score as
\* tallied, before the 101 rule.
results_total(ps, sc, pts) ==
    [p \in Pids |-> IF p \in SeqToSet(ps) THEN tallied_score(sc, pts, p) ELSE 0]

\* A variant of scores_after without the reset of exactly KickScore:
\* C17_RoundEnd tells it from the code.
scores_after_no_reset(ps, sc, pts) == results_total(ps, sc, pts)

\* Scores after the tally and the 101 rule: exactly KickScore goes back to 0.
scores_after(ps, sc, pts) ==
    [p \in Pids |->
        IF p \notin SeqToSet(ps) THEN sc[p]
        ELSE IF tallied_score(sc, pts, p) = KickScore THEN 0
        ELSE tallied_score(sc, pts, p)]

\* The seats to kick, in seat order: those above KickScore.
players_to_kick(ps, sc) == SelectSeq(ps, LAMBDA p : sc[p] > KickScore)

\* A variant of final_winner_id that names the first seat of the list.
final_winner_id_first_seat(ps, sc, kick) ==
    IF ps = <<>> THEN NoPlayer ELSE ps[1]

\* The winner the closing room announces: the first seat, in seat order,
\* with the lowest score among the seats that are not kicked; none if every
\* seat is kicked.
final_winner_id(ps, sc, kick) ==
    LET left == {i \in 1 .. Len(ps) : ps[i] \notin SeqToSet(kick)}
    IN  IF left = {} THEN NoPlayer
        ELSE LET i == CHOOSE i \in left :
                          /\ \A j \in left : sc[ps[i]] <= sc[ps[j]]
                          /\ \A j \in left : j < i => sc[ps[i]] < sc[ps[j]]
             IN  ps[i]

\* ---------------------------------------------------------------- Init
\* The scores, in seat order, of the rooms read back from the store.
LoadedScores ==
    {sc \in {<<90, 0>>, <<90, 0, 0>>, <<90, 90, 0>>} : Len(sc) <= MaxSeats}

\* A room in the lobby: just created by handle_create_room (one seat, no
\* score, 52 cards, the creator seat 1), or read back by load_room between
\* two rounds (its seats and their scores as stored; the store holds neither
\* deck size nor creator nor is_bot nor last_loser_id, which take their
\* defaults, and the countdown is not restored).
Init ==
    /\ room_exists = TRUE
    /\ \/ /\ players = <<1>>
          /\ score = [p \in Pids |-> 0]
          /\ creator_id = 1
       \/ \E sc \in LoadedScores :
            /\ players = [i \in 1 .. Len(sc) |-> i]
            /\ score = [p \in Pids |-> IF p <= Len(sc) THEN sc[p] ELSE 0]
            /\ creator_id = NoPlayer
    /\ deck_size = 52
    /\ hand = EmptyHands
    /\ ready = [p \in Pids |-> FALSE]
    /\ is_bot = [p \in Pids |-> FALSE]
    /\ deck = <<>>
    /\ discard_pile = <<>>
    /\ current_player_index = 0
    /\ dealer_index = 0
    /\ game_started = FALSE
    /\ chosen_suit = NoSuit
    /\ waiting_for_eight = FALSE
    /\ card_drawn_this_turn = FALSE
    /\ eight_draw_used = FALSE
    /\ eight_drawn_cards = {}
    /\ countdown_active = FALSE
    /\ countdown_task = 0
    /\ last_loser_id = NoPlayer
    /\ gen = 0
    /\ moves = 0
    /\ ctask = [t \in 1 .. MaxTasks |-> NoTask]
    /\ tr_pending = {}
    /\ ge_pc = [p \in Pids |-> "idle"]
    /\ ge_kick = [p \in Pids |-> <<>>]
    /\ ge_results = [p \in Pids |-> NoResults]
    /\ is_private = FALSE
    /\ bot_tasks = [p \in Pids |-> 0]
    /\ error = NoError
    /\ final_winner = <<>>
    /\ clients = {p \in Seated : ~is_bot[p]}
    /\ reconnect_reply = <<>>

\* A seat whose connection is inside a handler that has not returned: the
\* connection's next message is read only after the handler returns.
Busy(p) == p \in tr_pending \/ ge_pc[p] # "idle"

\* A message of seat p reaches its handler's room lookup.  A bot has no
\* connection, and neither has a seat whose connection closed.
Sends(p) == room_exists /\ p \in Seated /\ ~is_bot[p] /\ p \in clients /\ ~Busy(p)

\* ------------------------------------------------------------ the lobby
\* Ids a joining player may get: a uuid is fresh, so an id nothing refers to.
FreePids == {p \in Pids : /\ p \notin Seated
                          /\ p \notin tr_pending
                          /\ p # last_loser_id
                          /\ p # creator_id
                          /\ ge_pc[p] = "idle"
                          /\ \A w \in Pids : p \notin SeqToSet(ge_kick[w])}

handle_join_room ==
    /\ room_exists
    /\ ~game_started
    /\ Len(players) < MaxPlayers
    /\ \A p \in Seated : ~(score[p] > 0)
    /\ FreePids # {}
    /\ LET player_id == CHOOSE p \in FreePids : \A q \in FreePids : p <= q
       IN  /\ players' = Append(players, player_id)
           /\ clients' = clients \cup {player_id}
    /\ UNCHANGED <<hand, ready, score, is_bot, reconnect_reply>>
    /\ UNCHANGED <<tableVars, lobbyVars, roomVars, endVars, botVars, replyVars>>

handle_change_deck_size(p, size) ==
    /\ Sends(p)
    /\ creator_id = p
    /\ ~game_started
    /\ size \in {36, 52}
    /\ deck_size' = size
    /\ UNCHANGED <<room_exists, last_loser_id, creator_id, is_private>>
    /\ UNCHANGED <<seatVars, tableVars, lobbyVars, endVars, botVars, replyVars, connVars>>

\* handle_toggle_private: the creator, before the first round.
handle_toggle_private(p, private) ==
    /\ Sends(p)
    /\ creator_id = p
    /\ ~(game_started \/ \E q \in Seated : score[q] > 0)
    /\ is_private' = private
    /\ UNCHANGED <<room_exists, last_loser_id, deck_size, creator_id>>
    /\ UNCHANGED <<seatVars, tableVars, lobbyVars, endVars, botVars, replyVars, connVars>>

\* task.cancel(): a task that has not run yet never runs; one suspended in
\* asyncio.sleep gets CancelledError, which start_countdown catches; one
\* suspended in ws.send gets it inside broadcast_to_room's bare except,
\* which swallows it, so the task goes on.
cancel(ct, t) ==
    IF t = 0 THEN ct
    ELSE [ct EXCEPT ![t].pc = IF @ \in {"new", "sleep"} THEN "done" ELSE @,
                    ![t].cancelled = TRUE]

\* asyncio.create_task(self.make_bot_move(room_id, id)) for the seat at idx
\* of ps if it is a bot: one more call of that bot is asleep.
schedule_bot(bt, ps, idx, bots) ==
    IF idx < Len(ps) /\ bots[PlayerAt(ps, idx)]
    THEN [bt EXCEPT ![PlayerAt(ps, idx)] = @ + 1]
    ELSE bt

BotTasksOk(bt) == \A b \in Pids : bt[b] <= MaxBotTasks

\* The assignments of start_game for the seats ps, and the first move of a
\* bot it schedules.
StartGameStep(ps) ==
    /\ gen < MaxRounds
    /\ \E o \in start_game(ps, deck_size, gen + 1, last_loser_id,
                           waiting_for_eight, eight_draw_used, chosen_suit) :
          /\ bot_tasks' = schedule_bot(bot_tasks, ps, o.current_player_index, is_bot)
          /\ BotTasksOk(bot_tasks')
          /\ hand' = o.hand
          /\ deck' = o.deck
          /\ discard_pile' = o.discard_pile
          /\ dealer_index' = o.dealer_index
          /\ current_player_index' = o.current_player_index
          /\ waiting_for_eight' = o.waiting_for_eight
          /\ eight_draw_used' = o.eight_draw_used
          /\ chosen_suit' = o.chosen_suit
    /\ game_started' = TRUE
    /\ gen' = gen + 1
    /\ moves' = 0
    /\ UNCHANGED <<card_drawn_this_turn, eight_drawn_cards>>

ready_count(ps, rd) == Cardinality({i \in 1 .. Len(ps) : rd[ps[i]]})
FreeTasks == {t \in 1 .. MaxTasks : ctask[t].pc = "none"}

\* handle_toggle_ready up to its broadcast of player_ready_changed.
ToggleReadyFlip(p) ==
    /\ Sends(p)
    /\ ready' = [ready EXCEPT ![p] = ~@]
    /\ tr_pending' = tr_pending \cup {p}
    /\ UNCHANGED <<players, hand, score, is_bot>>
    /\ UNCHANGED <<countdown_active, countdown_task, ctask>>
    /\ UNCHANGED <<tableVars, roomVars, endVars, botVars, replyVars, connVars>>

\* handle_toggle_ready after the broadcast: start, start a countdown, or
\* cancel one.
ToggleReadyDecide(p) ==
    /\ room_exists
    /\ p \in tr_pending
    /\ tr_pending' = tr_pending \ {p}
    /\ LET rc == ready_count(players, ready)
           total_count == Len(players)
       IN  IF total_count >= 2 /\ rc = total_count
           THEN /\ ctask' = cancel(ctask, countdown_task)
                /\ countdown_task' = 0
                /\ countdown_active' = FALSE
                /\ StartGameStep(players)
           ELSE IF rc >= 2 /\ ~countdown_active
           THEN /\ FreeTasks # {}
                /\ LET t == CHOOSE t \in FreeTasks : \A u \in FreeTasks : t <= u
                   IN  /\ ctask' = [ctask EXCEPT ![t] = [pc |-> "new", secs |-> CountdownTicks,
                                                          cancelled |-> FALSE]]
                       /\ countdown_task' = t
                /\ countdown_active' = TRUE
                /\ UNCHANGED <<hand, tableVars, botVars>>
           ELSE IF rc < 2 /\ countdown_active
           THEN /\ ctask' = cancel(ctask, countdown_task)
                /\ countdown_task' = 0
                /\ countdown_active' = FALSE
                /\ UNCHANGED <<hand, tableVars, botVars>>
           ELSE UNCHANGED <<hand, tableVars, botVars, countdown_active,
                            countdown_task, ctask>>
    /\ UNCHANGED <<players, ready, score, is_bot>>
    /\ UNCHANGED <<roomVars, endVars, replyVars, connVars>>

\* ------------------------------------------------------- start_countdown
\* One countdown_tick.  A task that runs for the first time looks the room
\* up and returns if it is gone.  The broadcast either suspends in ws.send
\* or goes straight on to asyncio.sleep(1).
CountdownTick(t) ==
    /\ ctask[t].pc \in {"new", "sleep"}
    /\ ctask[t].secs > 0
    /\ IF ctask[t].pc = "new" /\ ~room_exists
       THEN ctask' = [ctask EXCEPT ![t].pc = "done"]
       ELSE \E suspended \in BOOLEAN :
              /\ suspended => room_exists
              /\ ctask' = [ctask EXCEPT ![t].pc = IF suspended THEN "send" ELSE "sleep",
                                        ![t].secs = @ - 1]
    /\ UNCHANGED <<countdown_active, countdown_task, tr_pending>>
    /\ UNCHANGED <<seatVars, tableVars, roomVars, endVars, botVars, replyVars, connVars>>

\* The send of the tick returns (or raised into the bare except).
CountdownSent(t) ==
    /\ ctask[t].pc = "send"
    /\ ctask' = [ctask EXCEPT ![t].pc = "sleep"]
    /\ UNCHANGED <<countdown_active, countdown_task, tr_pending>>
    /\ UNCHANGED <<seatVars, tableVars, roomVars, endVars, botVars, replyVars, connVars>>

\* A variant of ready_players that keeps every seat: C16_Expiry tells it from
\* the code.
ready_players_all(ps, rd) == ps

\* The seats the expiry keeps: the ready ones, in order.
ready_players(ps, rd) == SelectSeq(ps, LAMBDA p : rd[p])

\* After the last sleep: drop the seats that are not ready and start the
\* game, or give up when fewer than two are ready.  The task holds the room
\* object it looked up when it first ran and tests neither countdown_active
\* nor game_started; start_game looks the room up again and returns when it
\* is no longer registered.
CountdownExpire(t) ==
    /\ ctask[t].pc = "sleep"
    /\ ctask[t].secs = 0
    /\ ctask' = [ctask EXCEPT ![t].pc = "done"]
    /\ countdown_active' = FALSE
    /\ countdown_task' = 0
    /\ LET kept == ready_players(players, ready)
       IN  IF Len(kept) >= 2
           THEN /\ players' = kept
                /\ ready' = [p \in Pids |-> p \in SeqToSet(kept) /\ ready[p]]
                /\ score' = [p \in Pids |-> IF p \in SeqToSet(kept) THEN score[p] ELSE 0]
                /\ is_bot' = [p \in Pids |-> p \in SeqToSet(kept) /\ is_bot[p]]
                /\ IF room_exists THEN StartGameStep(kept)
                   ELSE /\ hand' = [p \in Pids |-> IF p \in SeqToSet(kept) THEN hand[p] ELSE {}]
                        /\ UNCHANGED <<tableVars, botVars>>
           ELSE UNCHANGED <<seatVars, tableVars, botVars>>
    /\ UNCHANGED <<tr_pending, roomVars, endVars, replyVars, connVars>>

\* ------------------------------------------------------------ the round
MaxIterations == 1000

\* A variant of is_legal_play that lets only a 2 answer an 8:
\* C26_EightDrawOnce tells it from the code.
is_legal_play_two_only(card, top_card, suit, w8, drawn) ==
    IF w8 THEN card.rank = "2"
    ELSE can_play_card(card, top_card, suit, w8)

\* The legality check of handle_play_card: inside an 8-chain a 2 or a card
\* drawn for the chain, else can_play_card.
is_legal_play(card, top_card, suit, w8, drawn) ==
    IF w8 THEN card.rank = "2" \/ card \in drawn
    ELSE can_play_card(card, top_card, suit, w8)

\* A variant of turn_after_play in which an A skips nobody: C6_TurnAfterPlay
\* tells it from the code.
turn_after_play_no_ace(rank, idx, n) ==
    LET next_player_index == (idx + 1) % n
    IN  IF rank \in {"6", "7"} THEN (next_player_index + 1) % n
        ELSE next_player_index

\* The seat whose turn it is after a non-winning play of a card of this
\* rank by the seat at idx, of n seats.
turn_after_play(rank, idx, n) ==
    LET next_player_index == (idx + 1) % n
    IN  IF rank \in {"6", "7", "A"} THEN (next_player_index + 1) % n
        ELSE next_player_index

\* The seat that takes the forced draw of a 6 or a 7.
forced_draw_player(ps, idx) == PlayerAt(ps, (idx + 1) % Len(ps))

\* A card drawn for an 8 ends the drawing.
matches_eight(card, top_card) ==
    \/ card.rank = "2"
    \/ card.rank = "Q"
    \/ card.rank = "8"
    \/ card.suit = top_card.suit

\* The draw-until-match loop of an 8-chain: [deck, discard_pile, drawn].
RECURSIVE eight_draw(_, _, _, _)
eight_draw(iterations, dk, dp, drawn) ==
    IF iterations >= MaxIterations
    THEN {[deck |-> dk, discard_pile |-> dp, drawn |-> drawn]}
    ELSE UNION {
           IF r.deck = <<>> \/ r.discard_pile = <<>>
           THEN {[deck |-> r.deck, discard_pile |-> r.discard_pile, drawn |-> drawn]}
           ELSE IF matches_eight(Pop(r.deck), Top(r.discard_pile))
           THEN {[deck |-> Popped(r.deck), discard_pile |-> r.discard_pile,
                  drawn |-> Append(drawn, Pop(r.deck))]}
           ELSE eight_draw(iterations + 1, Popped(r.deck), r.discard_pile,
                           Append(drawn, Pop(r.deck)))
           : r \in replenish_deck(dk, dp)}

\* A variant of chain_continues that keeps the chain pending after any draw:
\* C12_EightDraw tells it from the code.
chain_continues_any_draw(drawn, dp) == drawn # <<>>

\* The chain goes on after the draw iff the last card drawn matches.
chain_continues(drawn, dp) ==
    /\ drawn # <<>>
    /\ dp # <<>>
    /\ matches_eight(drawn[Len(drawn)], Top(dp))

\* A variant of current_player_is that takes every seat for the current
\* one: C20_BotWakeChecks tells it from the code.
current_player_is_anyone(p) == TRUE

\* player_ids[room.current_player_index] is p; an index past the end of the
\* seat list raises IndexError in the handlers and makes make_bot_move return.
current_player_is(p) ==
    /\ current_player_index < Len(players)
    /\ PlayerAt(players, current_player_index) = p

\* The checks the three round handlers make before anything else: the game
\* is started and it is the turn of p.
TurnOf(p) ==
    /\ moves < MaxMoves
    /\ game_started
    /\ current_player_is(p)

\* The request of seat p passes the turn check of the three round handlers.
IsTurnOf(p) == Sends(p) /\ TurnOf(p)

\* handle_play_card for player p, called for a client's message or by
\* make_bot_move; bt is bot_tasks less the call of the bot that plays.
play_card(p, card, suit, bt) ==
    /\ room_exists
    /\ TurnOf(p)
    /\ moves' = moves + 1
    /\ card \in hand[p]
    /\ discard_pile # <<>>
    /\ is_legal_play(card, Top(discard_pile), chosen_suit, waiting_for_eight,
                     eight_drawn_cards)
    /\ suit \in (IF card.rank = "Q" THEN SuitChoices \cup {NoSuit} ELSE {NoSuit})
    /\ \E f \in ForcedDraw(ForcedDrawCount(card.rank), deck,
                           Append(discard_pile, card), {}) :
         LET n == Len(players)
             hand1 == [hand EXCEPT ![p] = @ \ {card}]
             hand2 == IF f.got = {} THEN hand1
                      ELSE [hand1 EXCEPT ![forced_draw_player(players, current_player_index)]
                                            = @ \cup f.got]
             suit1 == IF card.rank # "Q" THEN NoSuit ELSE chosen_suit
             pts == round_points(players, hand2, f.discard_pile, p)
             sc == scores_after(players, score, pts)
             kick == players_to_kick(players, sc)
             loser == round_loser(players, pts, p)
         IN  /\ hand' = hand2
             /\ deck' = f.deck
             /\ discard_pile' = f.discard_pile
             /\ eight_drawn_cards' = IF waiting_for_eight THEN {} ELSE eight_drawn_cards
             /\ IF hand2[p] = {}
                THEN \* the round is won: handle_game_end up to its first send
                     /\ chosen_suit' = suit1
                     /\ waiting_for_eight' = FALSE
                     /\ eight_draw_used' = IF waiting_for_eight THEN FALSE ELSE eight_draw_used
                     /\ score' = sc
                     /\ last_loser_id' = IF loser # NoPlayer /\ loser \notin SeqToSet(kick)
                                         THEN loser ELSE NoPlayer
                     /\ ge_pc' = [ge_pc EXCEPT ![p] = "results"]
                     /\ ge_kick' = [ge_kick EXCEPT ![p] = kick]
                     /\ ge_results' = [ge_results EXCEPT ![p] =
                                          results_total(players, score, pts)]
                     /\ bot_tasks' = bt
                     /\ UNCHANGED <<current_player_index, card_drawn_this_turn>>
                ELSE /\ chosen_suit' = IF card.rank = "Q" /\ suit # NoSuit THEN suit ELSE suit1
                     /\ waiting_for_eight' = (card.rank = "8" /\ deck_size = 52)
                     /\ eight_draw_used' = IF waiting_for_eight \/ (card.rank = "8" /\ deck_size = 52)
                                           THEN FALSE ELSE eight_draw_used
                     /\ current_player_index' = turn_after_play(card.rank, current_player_index, n)
                     /\ card_drawn_this_turn' = FALSE
                     /\ bot_tasks' = schedule_bot(bt, players, current_player_index', is_bot)
                     /\ BotTasksOk(bot_tasks')
                     /\ UNCHANGED <<score, last_loser_id, endVars>>
    /\ UNCHANGED <<players, ready, is_bot, dealer_index, game_started, gen>>
    /\ UNCHANGED <<lobbyVars, room_exists, deck_size, creator_id, is_private>>
    /\ UNCHANGED <<replyVars, connVars>>

handle_play_card(p, card, suit) == Sends(p) /\ play_card(p, card, suit, bot_tasks)

\* handle_draw_card for player p up to its sends.  It schedules no bot: the
\* bot that draws is called again by itself (make_bot_move, or the delayed
\* call of handle_draw_card while the 8-chain is pending).
draw_card(p) ==
    /\ room_exists
    /\ TurnOf(p)
    /\ moves' = moves + 1
    /\ IF waiting_for_eight
       THEN /\ ~eight_draw_used
            /\ \E o \in eight_draw(0, deck, discard_pile, <<>>) :
                 /\ hand' = [hand EXCEPT ![p] = @ \cup SeqToSet(o.drawn)]
                 /\ deck' = o.deck
                 /\ discard_pile' = o.discard_pile
                 /\ IF chain_continues(o.drawn, o.discard_pile)
                    THEN /\ eight_draw_used' = TRUE
                         /\ eight_drawn_cards' = eight_drawn_cards \cup SeqToSet(o.drawn)
                         /\ UNCHANGED <<waiting_for_eight, current_player_index>>
                    ELSE /\ waiting_for_eight' = FALSE
                         /\ eight_draw_used' = FALSE
                         /\ eight_drawn_cards' = {}
                         /\ current_player_index' =
                                (current_player_index + 1) % Len(players)
            /\ UNCHANGED card_drawn_this_turn
       ELSE /\ ~card_drawn_this_turn
            /\ \E r \in replenish_deck(deck, discard_pile) :
                 /\ r.deck # <<>>
                 /\ hand' = [hand EXCEPT ![p] = @ \cup {Pop(r.deck)}]
                 /\ deck' = Popped(r.deck)
                 /\ discard_pile' = r.discard_pile
            /\ card_drawn_this_turn' = TRUE
            /\ UNCHANGED <<waiting_for_eight, eight_draw_used, eight_drawn_cards,
                           current_player_index>>
    /\ UNCHANGED <<players, ready, score, is_bot, dealer_index, game_started,
                   chosen_suit, gen>>
    /\ UNCHANGED <<lobbyVars, roomVars, endVars, botVars, replyVars, connVars>>

\* A variant of handle_draw_card whose ordinary draw does not look at
\* card_drawn_this_turn: C25_OneDraw tells it from the code.
handle_draw_card_unflagged(p) ==
    /\ Sends(p)
    /\ IF waiting_for_eight \/ ~card_drawn_this_turn THEN draw_card(p)
       ELSE /\ TurnOf(p)
            /\ moves' = moves + 1
            /\ \E r \in replenish_deck(deck, discard_pile) :
                 /\ r.deck # <<>>
                 /\ hand' = [hand EXCEPT ![p] = @ \cup {Pop(r.deck)}]
                 /\ deck' = Popped(r.deck)
                 /\ discard_pile' = r.discard_pile
            /\ UNCHANGED <<card_drawn_this_turn, waiting_for_eight, eight_draw_used,
                           eight_drawn_cards, current_player_index>>
            /\ UNCHANGED <<players, ready, score, is_bot, dealer_index, game_started,
                           chosen_suit, gen>>
            /\ UNCHANGED <<lobbyVars, roomVars, endVars, botVars, replyVars, connVars>>

handle_draw_card(p) == Sends(p) /\ draw_card(p)

\* A variant of handle_skip_turn that charges the seat a point:
\* C9_ScoreFrame tells it from the code.
handle_skip_turn_charged(p) ==
    /\ IsTurnOf(p)
    /\ moves' = moves + 1
    /\ ~waiting_for_eight
    /\ card_drawn_this_turn
    /\ current_player_index' = (current_player_index + 1) % Len(players)
    /\ card_drawn_this_turn' = FALSE
    /\ score' = [score EXCEPT ![p] = @ + 1]
    /\ bot_tasks' = schedule_bot(bot_tasks, players, current_player_index', is_bot)
    /\ UNCHANGED <<deck, discard_pile, dealer_index, game_started, chosen_suit,
                   waiting_for_eight, eight_draw_used, eight_drawn_cards, gen>>
    /\ UNCHANGED <<players, hand, ready, is_bot>>
    /\ UNCHANGED <<lobbyVars, roomVars, endVars, replyVars, connVars>>

\* A variant of skip_turn that does not ask for a drawn card: C27_Skip
\* tells it from the code.
skip_turn_undrawn(p, bt) ==
    /\ room_exists
    /\ TurnOf(p)
    /\ moves' = moves + 1
    /\ ~waiting_for_eight
    /\ current_player_index' = (current_player_index + 1) % Len(players)
    /\ card_drawn_this_turn' = FALSE
    /\ bot_tasks' = schedule_bot(bt, players, current_player_index', is_bot)
    /\ BotTasksOk(bot_tasks')
    /\ UNCHANGED <<deck, discard_pile, dealer_index, game_started, chosen_suit,
                   waiting_for_eight, eight_draw_used, eight_drawn_cards, gen>>
    /\ UNCHANGED <<seatVars, lobbyVars, roomVars, endVars, replyVars, connVars>>

\* handle_skip_turn for player p; bt as in play_card.
skip_turn(p, bt) ==
    /\ room_exists
    /\ TurnOf(p)
    /\ moves' = moves + 1
    /\ ~waiting_for_eight
    /\ card_drawn_this_turn
    /\ current_player_index' = (current_player_index + 1) % Len(players)
    /\ card_drawn_this_turn' = FALSE
    /\ bot_tasks' = schedule_bot(bt, players, current_player_index', is_bot)
    /\ BotTasksOk(bot_tasks')
    /\ UNCHANGED <<deck, discard_pile, dealer_index, game_started, chosen_suit,
                   waiting_for_eight, eight_draw_used, eight_drawn_cards, gen>>
    /\ UNCHANGED <<seatVars, lobbyVars, roomVars, endVars, replyVars, connVars>>

\* A variant of handle_skip_turn that forgets the suit a Q asked for:
\* C29_ChosenSuit tells it from the code.
handle_skip_turn_suit_cleared(p) ==
    /\ IsTurnOf(p)
    /\ moves' = moves + 1
    /\ ~waiting_for_eight
    /\ card_drawn_this_turn
    /\ current_player_index' = (current_player_index + 1) % Len(players)
    /\ card_drawn_this_turn' = FALSE
    /\ chosen_suit' = NoSuit
    /\ bot_tasks' = schedule_bot(bot_tasks, players, current_player_index', is_bot)
    /\ UNCHANGED <<deck, discard_pile, dealer_index, game_started,
                   waiting_for_eight, eight_draw_used, eight_drawn_cards, gen>>
    /\ UNCHANGED <<seatVars, lobbyVars, roomVars, endVars, replyVars, connVars>>

handle_skip_turn(p) == Sends(p) /\ skip_turn(p, bot_tasks)

\* ------------------------------------------------- the requests refused
\* The error a handler of a move replies with before it looks at the move:
\* player_ids[room.current_player_index] raises IndexError, which
\* handle_message reports, or names another seat.
turn_error(p) ==
    IF current_player_index >= Len(players) THEN "list index out of range"
    ELSE IF PlayerAt(players, current_player_index) # p THEN "Not your turn"
    ELSE NoError

\* The error handle_play_card replies with, NoError when it plays the card.
play_card_error(p, card) ==
    IF turn_error(p) # NoError THEN turn_error(p)
    ELSE IF card \notin hand[p] THEN "Card not found"
    ELSE IF discard_pile = <<>> THEN "No cards on table"
    ELSE IF waiting_for_eight
    THEN IF card.rank # "2" /\ card \notin eight_drawn_cards
         THEN "Must play a 2 or draw cards" ELSE NoError
    ELSE IF ~can_play_card(card, Top(discard_pile), chosen_suit, waiting_for_eight)
    THEN "Cannot play this card"
    ELSE NoError

\* The error handle_skip_turn replies with, NoError when it passes the turn.
skip_turn_error(p) ==
    IF turn_error(p) # NoError THEN turn_error(p)
    ELSE IF waiting_for_eight THEN "Cannot skip the turn on an eight"
    ELSE IF ~card_drawn_this_turn THEN "Draw a card from the deck first"
    ELSE NoError

\* A variant of draw_card_refused in which the deck is replenished before
\* the test of card_drawn_this_turn: C19_RefusedUnchanged tells it from the
\* code.
draw_card_refused_late(drawn, dk, dp) ==
    {[error |-> IF drawn THEN "Card already drawn this turn" ELSE "Deck is empty",
      deck |-> r.deck, discard_pile |-> r.discard_pile]
        : r \in {x \in replenish_deck(dk, dp) : drawn \/ x.deck = <<>>}}

\* The ordinary draw of handle_draw_card when it ends in an error: the
\* error, and the deck and discard pile it leaves.  A card was drawn this
\* turn already; or replenish_deck ran and the deck is still empty.
draw_card_refused(drawn, dk, dp) ==
    IF drawn
    THEN {[error |-> "Card already drawn this turn", deck |-> dk, discard_pile |-> dp]}
    ELSE {[error |-> "Deck is empty", deck |-> r.deck, discard_pile |-> r.discard_pile]
            : r \in {x \in replenish_deck(dk, dp) : x.deck = <<>>}}

\* The error handle_change_deck_size replies with.
change_deck_size_error(p, size) ==
    IF creator_id # p THEN "Only room creator can change deck size"
    ELSE IF game_started THEN "Cannot change deck size after game started"
    ELSE IF size \notin {36, 52} THEN "Deck size must be 36 or 52"
    ELSE NoError

\* The error handle_toggle_private replies with.
toggle_private_error(p) ==
    IF creator_id # p THEN "Only the creator can change the privacy"
    ELSE IF game_started \/ \E q \in Seated : score[q] > 0
    THEN "Cannot change the privacy after game started"
    ELSE NoError

\* The handler replies with the error msg and returns.
Refuse(msg) ==
    /\ msg # NoError
    /\ error' = msg
    /\ UNCHANGED <<seatVars, tableVars, lobbyVars, roomVars, endVars, botVars,
                   final_winner, connVars>>

RefusePlayCard(p, card) ==
    Sends(p) /\ game_started /\ Refuse(play_card_error(p, card))

RefuseSkipTurn(p) ==
    Sends(p) /\ game_started /\ Refuse(skip_turn_error(p))

\* handle_draw_card ends in an error: it is not the seat's turn, the draw
\* of the 8-chain is used up, or the ordinary draw is refused.
RefuseDrawCard(p) ==
    /\ Sends(p)
    /\ game_started
    /\ IF turn_error(p) # NoError THEN Refuse(turn_error(p))
       ELSE IF waiting_for_eight
       THEN eight_draw_used /\ Refuse("Eight draw already used")
       ELSE \E o \in draw_card_refused(card_drawn_this_turn, deck, discard_pile) :
              /\ error' = o.error
              /\ deck' = o.deck
              /\ discard_pile' = o.discard_pile
              /\ UNCHANGED <<current_player_index, dealer_index, game_started,
                             chosen_suit, waiting_for_eight, card_drawn_this_turn,
                             eight_draw_used, eight_drawn_cards, gen, moves>>
              /\ UNCHANGED <<seatVars, lobbyVars, roomVars, endVars, botVars,
                             final_winner, connVars>>

RefuseChangeDeckSize(p, size) ==
    Sends(p) /\ Refuse(change_deck_size_error(p, size))

RefuseTogglePrivate(p) ==
    Sends(p) /\ Refuse(toggle_private_error(p))

\* -------------------------------------------------------- make_bot_move
\* What make_bot_move checks when it wakes: the room exists, its game is
\* started, the bot is seated and is a bot, it is the bot's turn and a card
\* is on the table.
bot_checks(b) ==
    /\ room_exists
    /\ game_started
    /\ b \in Seated
    /\ is_bot[b]
    /\ current_player_is(b)
    /\ discard_pile # <<>>

priority_ranks(size) == {"7", "6", "A"} \cup (IF size = 52 THEN {"8"} ELSE {})

playable_cards(b) ==
    {c \in hand[b] : is_legal_play(c, Top(discard_pile), chosen_suit,
                                   waiting_for_eight, eight_drawn_cards)}

\* A variant of cards_to_play without the priority order: any playable card.
cards_to_play_any(b) == playable_cards(b)

\* The cards random.choice may give the bot: a playable card of a priority
\* rank if there is one; else, outside an 8-chain, a playable card of the
\* most points; else any playable card.
cards_to_play(b) ==
    LET priority_cards == {c \in playable_cards(b) : c.rank \in priority_ranks(deck_size)}
    IN  IF priority_cards # {} THEN priority_cards
        ELSE IF ~waiting_for_eight
        THEN {c \in playable_cards(b) :
                \A d \in playable_cards(b) :
                    calculate_card_points(d) <= calculate_card_points(c)}
        ELSE playable_cards(b)

\* The suit the bot declares with a Q: a suit of a priority card of the rest
\* of its hand, else a suit of the rest of its hand, else any suit.
bot_suits(b, card) ==
    IF card.rank # "Q" THEN {NoSuit}
    ELSE LET rest == hand[b] \ {card}
             priority_cards == {c \in rest : c.rank \in priority_ranks(deck_size)}
         IN  IF priority_cards # {} THEN {c.suit : c \in priority_cards}
             ELSE IF rest # {} THEN {c.suit : c \in rest}
             ELSE SuitChoices

\* The call ends without a change to the room: it returned, or it raised in
\* the task nobody awaits.
BotReturn(bt) ==
    /\ bot_tasks' = bt
    /\ UNCHANGED <<seatVars, tableVars, lobbyVars, roomVars, endVars, replyVars, connVars>>

\* handle_draw_card declines the bot's draw: the 8-chain draw is used up
\* (a silent return), or the deck stays empty (ws.send on the bot's ws, None).
bot_draw_declined ==
    IF waiting_for_eight THEN eight_draw_used
    ELSE \A r \in replenish_deck(deck, discard_pile) : r.deck = <<>>

\* One make_bot_move call of bot b wakes from its sleep and runs up to the
\* sends of the handler it calls.  After a draw the bot is called again
\* (by make_bot_move, or by handle_draw_card while the 8-chain is pending),
\* so as many of its calls are asleep as before.
BotWake(b) ==
    /\ bot_tasks[b] > 0
    /\ LET bt == [bot_tasks EXCEPT ![b] = @ - 1]
       IN  IF ~bot_checks(b) THEN BotReturn(bt)
           ELSE IF playable_cards(b) # {}
           THEN \E card \in cards_to_play(b) : \E suit \in bot_suits(b, card) :
                    play_card(b, card, suit, bt)
           ELSE IF card_drawn_this_turn
           THEN IF waiting_for_eight THEN BotReturn(bt) ELSE skip_turn(b, bt)
           ELSE IF bot_draw_declined THEN BotReturn(bt)
           ELSE draw_card(b)

\* --------------------------------------- handle_game_end after the tally
\* A seat leaves room.players: its Player object is gone.
WithoutSeat(f, p, default) == [f EXCEPT ![p] = default]

\* The reset of the room for the next round.
GameEndReset(w) ==
    /\ game_started' = FALSE
    /\ hand' = EmptyHands
    /\ ready' = [p \in Pids |-> p \in Seated /\ is_bot[p]]
    /\ deck' = <<>>
    /\ discard_pile' = <<>>
    /\ chosen_suit' = NoSuit
    /\ waiting_for_eight' = FALSE
    /\ eight_draw_used' = FALSE
    /\ ge_pc' = [ge_pc EXCEPT ![w] = "idle"]
    /\ ge_kick' = [ge_kick EXCEPT ![w] = <<>>]
    /\ ge_results' = [ge_results EXCEPT ![w] = NoResults]
    /\ UNCHANGED <<players, score, is_bot, current_player_index, dealer_index,
                   card_drawn_this_turn, eight_drawn_cards, gen, moves>>
    /\ UNCHANGED <<lobbyVars, roomVars, botVars, replyVars, connVars>>

\* Fewer than two seats would remain: final_winner is sent and the room is
\* deleted from self.rooms and from the store.
GameEndClose(w) ==
    /\ room_exists' = FALSE
    /\ final_winner' = <<final_winner_id(players, score, ge_kick[w])>>
    /\ ge_pc' = [ge_pc EXCEPT ![w] = "idle"]
    /\ ge_kick' = [ge_kick EXCEPT ![w] = <<>>]
    /\ ge_results' = [ge_results EXCEPT ![w] = NoResults]
    /\ UNCHANGED <<last_loser_id, deck_size, creator_id, is_private, error>>
    /\ UNCHANGED <<seatVars, tableVars, lobbyVars, botVars, connVars>>

\* room.players[player_id] raised KeyError: the handler ends there.
GameEndRaise(w) ==
    /\ ge_pc' = [ge_pc EXCEPT ![w] = "idle"]
    /\ ge_kick' = [ge_kick EXCEPT ![w] = <<>>]
    /\ ge_results' = [ge_results EXCEPT ![w] = NoResults]
    /\ UNCHANGED <<seatVars, tableVars, lobbyVars, roomVars, botVars, replyVars, connVars>>

\* One kicked seat is deleted; player_kicked is then broadcast.  Its
\* connection stays in self.clients.
GameEndKick(w) ==
    LET player_id == Head(ge_kick[w])
    IN  /\ players' = SelectSeq(players, LAMBDA q : q # player_id)
        /\ hand' = WithoutSeat(hand, player_id, {})
        /\ ready' = WithoutSeat(ready, player_id, FALSE)
        /\ score' = WithoutSeat(score, player_id, 0)
        /\ is_bot' = WithoutSeat(is_bot, player_id, FALSE)
        /\ ge_kick' = [ge_kick EXCEPT ![w] = Tail(@)]
        /\ ge_pc' = [ge_pc EXCEPT ![w] = "kicking"]
        /\ UNCHANGED <<ge_results, tableVars, lobbyVars, roomVars, botVars, replyVars,
                       connVars>>

\* The handle_game_end of winner w resumes after a send: the next stretch up
\* to the next send.
GameEndStep(w) ==
    /\ room_exists
    /\ ge_pc[w] \in {"results", "kicking"}
    /\ IF ge_kick[w] = <<>> THEN GameEndReset(w)
       ELSE IF ge_pc[w] = "results" /\ Len(players) - Len(ge_kick[w]) < 2
            THEN IF players = <<>> \/ SeqToSet(ge_kick[w]) \subseteq Seated
                 THEN GameEndClose(w)
                 ELSE GameEndRaise(w)
       ELSE IF Head(ge_kick[w]) \in Seated THEN GameEndKick(w)
       ELSE GameEndRaise(w)

\* ------------------------------------------- handle_client, on disconnect
\* A variant of game_in_progress that forgets the scores between two
\* rounds: C24_Reconnect tells it from the code.
game_in_progress_started_only == game_started

\* The game is going on, or a round was played: some seat has a score.
game_in_progress == game_started \/ \E q \in Seated : score[q] > 0

\* A variant of Disconnect that keeps a private room whose creator leaves as
\* long as a human seat is left.
Disconnect_creator_ignored(p) ==
    /\ Sends(p)
    /\ ~game_in_progress
    /\ players' = SelectSeq(players, LAMBDA q : q # p)
    /\ hand' = WithoutSeat(hand, p, {})
    /\ ready' = WithoutSeat(ready, p, FALSE)
    /\ score' = WithoutSeat(score, p, 0)
    /\ is_bot' = WithoutSeat(is_bot, p, FALSE)
    /\ room_exists' = \E q \in Seated \ {p} : ~is_bot[q]
    /\ clients' = clients \ {p}
    /\ UNCHANGED <<last_loser_id, deck_size, creator_id, is_private>>
    /\ UNCHANGED <<tableVars, lobbyVars, endVars, botVars, replyVars, reconnect_reply>>

\* A seat's connection closes in the lobby of a room without scores: the
\* seat is deleted, and the room with it when the seat created a private
\* room (after the room_closed broadcast) or when no human is left.
Disconnect(p) ==
    /\ Sends(p)
    /\ ~game_in_progress
    /\ players' = SelectSeq(players, LAMBDA q : q # p)
    /\ hand' = WithoutSeat(hand, p, {})
    /\ ready' = WithoutSeat(ready, p, FALSE)
    /\ score' = WithoutSeat(score, p, 0)
    /\ is_bot' = WithoutSeat(is_bot, p, FALSE)
    /\ room_exists' = IF is_private /\ creator_id = p THEN FALSE
                      ELSE \E q \in Seated \ {p} : ~is_bot[q]
    /\ clients' = clients \ {p}
    /\ UNCHANGED <<last_loser_id, deck_size, creator_id, is_private>>
    /\ UNCHANGED <<tableVars, lobbyVars, endVars, botVars, replyVars, reconnect_reply>>

\* --------------------------------------------------------- the events
\* Player.to_dict_with_hand, which no event uses: C23_HandsHidden tells it
\* from Player.to_dict.
to_dict_with_hand(h, q) ==
    [id |-> q, hand |-> h[q], ready |-> ready[q], score |-> score[q]]

\* Player.to_dict of seat q when the hands are h: the entry of q in the
\* players list of an event.
to_dict(h, q) ==
    [id |-> q, hand_count |-> Cardinality(h[q]), ready |-> ready[q],
     score |-> score[q], is_bot |-> is_bot[q]]

\* What game_started, card_played, card_drawn and turn_skipped tell seat
\* pid about the table when the hands are h: its own hand, the public
\* table, every seat's to_dict, and the cards drawn for the 8-chain if pid
\* is the seat eight_for (the current seat; for card_drawn the seat that
\* drew).
table_event(h, pid, eight_for) ==
    [hand |-> h[pid],
     top_card |-> IF discard_pile = <<>> THEN <<>> ELSE <<Top(discard_pile)>>,
     current_player |-> current_player_index,
     dealer |-> dealer_index,
     players |-> [i \in 1 .. Len(players) |-> to_dict(h, players[i])],
     deck_count |-> Len(deck),
     chosen_suit |-> chosen_suit,
     waiting_for_eight |-> waiting_for_eight,
     eight_draw_used |-> eight_draw_used,
     card_drawn_this_turn |-> card_drawn_this_turn,
     eight_drawn_cards |-> IF pid = eight_for THEN eight_drawn_cards ELSE {},
     deck_size |-> deck_size]

\* game_ended, the same for every seat, sent by the handle_game_end of
\* winner w when the hands are h: each seat's points, total and remaining
\* hand.
game_ended_event(h, w) ==
    [winner_id |-> w,
     winning_card |-> IF discard_pile = <<>> THEN <<>> ELSE <<Top(discard_pile)>>,
     results |-> [i \in 1 .. Len(players) |->
                    LET q == players[i]
                    IN  [player_id |-> q,
                         points |-> IF q = w THEN queen_bonus(discard_pile)
                                    ELSE calculate_hand_points(h[q]),
                         total_score |-> ge_results[w][q],
                         hand |-> IF q = w THEN {} ELSE h[q]]]]

\* room_updated: Room.to_dict when the hands are h.
room_updated_event(h) ==
    [players |-> [i \in 1 .. Len(players) |-> to_dict(h, players[i])],
     player_count |-> Len(players),
     game_started |-> game_started,
     deck_size |-> deck_size,
     creator_id |-> creator_id,
     is_private |-> is_private]

\* ------------------------------------- handle_client and handle_reconnect
\* The connection of seat p closes while the game is in progress:
\* player_disconnected is broadcast and the room is saved.  The seat and its
\* player_rooms entry stay; only self.clients loses the connection.
DisconnectInProgress(p) ==
    /\ Sends(p)
    /\ game_in_progress
    /\ clients' = clients \ {p}
    /\ UNCHANGED <<seatVars, tableVars, lobbyVars, roomVars, endVars, botVars,
                   replyVars, reconnect_reply>>

\* What handle_reconnect sends to seat p: the table as game_started if the
\* game is started, else the room as room_joined.
reconnect_message(p) ==
    IF game_started
    THEN [type |-> "game_started",
          state |-> table_event(hand, p, PlayerAt(players, current_player_index))]
    ELSE [type |-> "room_joined", room |-> room_updated_event(hand), player_id |-> p]

\* A new connection asks for seat p.  A room that is not in self.rooms is
\* not in the store either (both deletions go together).  The connection
\* is attached before the message is built, so it stays attached when
\* player_ids[room.current_player_index] raises.  If it is a bot's turn in
\* a started game one more make_bot_move call is created.  Only a human
\* seat without a connection is asked for.
handle_reconnect(p) ==
    /\ p \notin clients
    /\ ~is_bot[p]
    /\ IF ~room_exists THEN Refuse("room_not_found")
       ELSE IF p \notin Seated THEN Refuse("player_not_found")
       ELSE /\ clients' = clients \cup {p}
            /\ IF game_started /\ current_player_index >= Len(players)
               THEN /\ error' = "list index out of range"
                    /\ UNCHANGED <<reconnect_reply, bot_tasks>>
               ELSE /\ reconnect_reply' = <<reconnect_message(p)>>
                    /\ bot_tasks' = IF game_started
                                    THEN schedule_bot(bot_tasks, players,
                                                      current_player_index, is_bot)
                                    ELSE bot_tasks
                    /\ BotTasksOk(bot_tasks')
                    /\ UNCHANGED error
            /\ UNCHANGED <<seatVars, tableVars, lobbyVars, roomVars, endVars,
                           final_winner>>

\* ---------------------------------------------------------- the store
\* The Room object and its Player objects, as one record.
Room ==
    [players |-> players, hand |-> hand, ready |-> ready, score |-> score,
     is_bot |-> is_bot, deck |-> deck, discard_pile |-> discard_pile,
     current_player_index |-> current_player_index,
     dealer_index |-> dealer_index, game_started |-> game_started,
     chosen_suit |-> chosen_suit, waiting_for_eight |-> waiting_for_eight,
     eight_draw_used |-> eight_draw_used,
     card_drawn_this_turn |-> card_drawn_this_turn,
     eight_drawn_cards |-> eight_drawn_cards,
     last_loser_id |-> last_loser_id, deck_size |-> deck_size,
     creator_id |-> creator_id, is_private |-> is_private]

\* GameDatabase.save_room: the columns of the rooms table its INSERT names.
\* eight_draw_used, deck_size, creator_id and is_private of room_data are
\* not among them.
save_room(room_data) ==
    [game_started |-> room_data.game_started,
     current_player_index |-> room_data.current_player_index,
     dealer_index |-> room_data.dealer_index,
     chosen_suit |-> room_data.chosen_suit,
     waiting_for_eight |-> room_data.waiting_for_eight,
     card_drawn_this_turn |-> room_data.card_drawn_this_turn]

\* save_room_to_db into an empty store: the row of the room, the rows of
\* its players in seat order (id, ready, score), the cards of each player,
\* the deck and the discard pile with their order.
save_room_to_db(room) ==
    [room |-> save_room([game_started |-> room.game_started,
                         current_player_index |-> room.current_player_index,
                         dealer_index |-> room.dealer_index,
                         chosen_suit |-> room.chosen_suit,
                         waiting_for_eight |-> room.waiting_for_eight,
                         eight_draw_used |-> room.eight_draw_used,
                         card_drawn_this_turn |-> room.card_drawn_this_turn,
                         deck_size |-> room.deck_size,
                         creator_id |-> room.creator_id,
                         is_private |-> room.is_private]),
     players |-> [i \in 1 .. Len(room.players) |->
                    [id |-> room.players[i], ready |-> room.ready[room.players[i]],
                     score |-> room.score[room.players[i]]]],
     player_cards |-> [p \in Pids |-> IF p \in SeqToSet(room.players)
                                       THEN room.hand[p] ELSE {}],
     deck_cards |-> room.deck,
     discard_pile |-> room.discard_pile]

\* load_room: the Room built from the rows.  What the rows do not hold
\* takes the default of the dataclass: is_bot False, eight_draw_used False,
\* last_loser_id None, deck_size 52, creator_id None, is_private False.
load_room(db) ==
    LET ids == {db.players[i].id : i \in 1 .. Len(db.players)}
        row(p) == db.players[CHOOSE i \in 1 .. Len(db.players) : db.players[i].id = p]
    IN  [players |-> [i \in 1 .. Len(db.players) |-> db.players[i].id],
         hand |-> [p \in Pids |-> IF p \in ids THEN db.player_cards[p] ELSE {}],
         ready |-> [p \in Pids |-> p \in ids /\ row(p).ready],
         score |-> [p \in Pids |-> IF p \in ids THEN row(p).score ELSE 0],
         is_bot |-> [p \in Pids |-> FALSE],
         deck |-> db.deck_cards,
         discard_pile |-> db.discard_pile,
         current_player_index |-> db.room.current_player_index,
         dealer_index |-> db.room.dealer_index,
         game_started |-> db.room.game_started,
         chosen_suit |-> db.room.chosen_suit,
         waiting_for_eight |-> db.room.waiting_for_eight,
         eight_draw_used |-> FALSE,
         card_drawn_this_turn |-> db.room.card_drawn_this_turn,
         eight_drawn_cards |-> {},
         last_loser_id |-> NoPlayer,
         deck_size |-> 52,
         creator_id |-> NoPlayer,
         is_private |-> FALSE]

\* The room is saved, the server stops with every task and handler in it,
\* and at the next start load_rooms_from_db reads the room back.
SaveAndLoad ==
    /\ room_exists
    /\ LET room == load_room(save_room_to_db(Room))
       IN  /\ players' = room.players
           /\ hand' = room.hand
           /\ ready' = room.ready
           /\ score' = room.score
           /\ is_bot' = room.is_bot
           /\ deck' = room.deck
           /\ discard_pile' = room.discard_pile
           /\ current_player_index' = room.current_player_index
           /\ dealer_index' = room.dealer_index
           /\ game_started' = room.game_started
           /\ chosen_suit' = room.chosen_suit
           /\ waiting_for_eight' = room.waiting_for_eight
           /\ eight_draw_used' = room.eight_draw_used
           /\ card_drawn_this_turn' = room.card_drawn_this_turn
           /\ eight_drawn_cards' = room.eight_drawn_cards
           /\ last_loser_id' = room.last_loser_id
           /\ deck_size' = room.deck_size
           /\ creator_id' = room.creator_id
           /\ is_private' = room.is_private
    /\ countdown_active' = FALSE
    /\ countdown_task' = 0
    /\ ctask' = [t \in 1 .. MaxTasks |-> NoTask]
    /\ tr_pending' = {}
    /\ ge_pc' = [p \in Pids |-> "idle"]
    /\ ge_kick' = [p \in Pids |-> <<>>]
    /\ ge_results' = [p \in Pids |-> NoResults]
    /\ bot_tasks' = [p \in Pids |-> 0]
    /\ UNCHANGED <<room_exists, gen, moves, replyVars, connVars>>

\* -------------------------------------------------------- specification
\* The round: ready toggles arrive one at a time, in the lobby before the
\* last round the bound allows, and no countdown task is scheduled.
Next ==
    \/ handle_join_room
    \/ \E p \in Pids, size \in {36, 52} : handle_change_deck_size(p, size)
    \/ \E p \in Pids :
          ~game_started /\ gen < MaxRounds /\ tr_pending = {} /\ ToggleReadyFlip(p)
    \/ \E p \in Pids : ToggleReadyDecide(p)
    \/ \E p \in Pids : \E card \in hand[p], suit \in SuitChoices \cup {NoSuit} :
          handle_play_card(p, card, suit)
    \/ \E p \in Pids : handle_draw_card(p)
    \/ \E p \in Pids : handle_skip_turn(p)
    \/ \E w \in Pids : GameEndStep(w)
    \/ \E p \in Pids : Disconnect(p)

Spec == Init /\ [][Next]_vars

\* The lobby: concurrent ready toggles, the countdown tasks and disconnects.
\* Once the game has started no further request is sent; the handlers and
\* tasks in flight go on.
NextLobby ==
    \/ handle_join_room
    \/ \E p \in Pids : ~game_started /\ ToggleReadyFlip(p)
    \/ \E p \in Pids : ToggleReadyDecide(p)
    \/ \E t \in 1 .. MaxTasks : CountdownTick(t)
    \/ \E t \in 1 .. MaxTasks : CountdownSent(t)
    \/ \E t \in 1 .. MaxTasks : CountdownExpire(t)
    \/ \E p \in Pids : Disconnect(p)

SpecLobby == Init /\ [][NextLobby]_vars

\* The legality check on its whole input domain: a started game of two
\* seats in which seat 1 is to move and holds card, for every card, top
\* card, chosen suit, 8-chain flag and "card was drawn for the chain".
InitLegal ==
    \E size \in {36, 52} :
      \E i \in 1 .. Len(deck_list(size, 1)), j \in 1 .. Len(deck_list(size, 1)) :
        LET all == deck_list(size, 1)
            card == all[i]
            top_card == all[j]
            rest == SelectSeq(all, LAMBDA c : c # card /\ c # top_card)
        IN  /\ i # j
            /\ Len(rest) > 2 * HandSize - 1
            /\ deck_size = size
            /\ hand = [p \in Pids |->
                         IF p = 1 THEN {card} \cup {rest[k] : k \in 1 .. HandSize - 1}
                         ELSE IF p = 2 THEN {rest[k] : k \in HandSize .. 2 * HandSize - 1}
                         ELSE {}]
            /\ deck = SubSeq(rest, 2 * HandSize, Len(rest))
            /\ discard_pile = <<top_card>>
            /\ chosen_suit \in SuitChoices \cup {NoSuit}
            /\ waiting_for_eight \in BOOLEAN
            /\ eight_drawn_cards \in {{}, {card}}
            /\ room_exists = TRUE
            /\ players = <<1, 2>>
            /\ ready = [p \in Pids |-> p \in {1, 2}]
            /\ score = [p \in Pids |-> 0]
            /\ is_bot = [p \in Pids |-> FALSE]
            /\ current_player_index = 0
            /\ dealer_index = 1
            /\ game_started = TRUE
            /\ card_drawn_this_turn = FALSE
            /\ eight_draw_used = (eight_drawn_cards # {})
            /\ countdown_active = FALSE
            /\ countdown_task = 0
            /\ last_loser_id = NoPlayer
            /\ creator_id = 1
            /\ gen = 1
            /\ moves = 0
            /\ ctask = [t \in 1 .. MaxTasks |-> NoTask]
            /\ tr_pending = {}
            /\ ge_pc = [p \in Pids |-> "idle"]
            /\ ge_kick = [p \in Pids |-> <<>>]
            /\ ge_results = [p \in Pids |-> NoResults]
            /\ is_private = FALSE
            /\ bot_tasks = [p \in Pids |-> 0]
            /\ error = NoError
            /\ final_winner = <<>>
            /\ clients = {p \in Seated : ~is_bot[p]}
            /\ reconnect_reply = <<>>

NextLegal ==
    \E p \in Pids : \E card \in hand[p], suit \in SuitChoices \cup {NoSuit} :
        handle_play_card(p, card, suit)

SpecLegal == InitLegal /\ [][NextLegal]_vars

\* The requests refused: a room of two seats in the lobby, no round
\* played yet; the creator sets deck size and privacy, the seats get ready
\* one at a time, play one round, and any seat may send any request at any
\* time.
InitReject ==
    /\ room_exists = TRUE
    /\ players = <<1, 2>>
    /\ score = [p \in Pids |-> 0]
    /\ deck_size = 52
    /\ hand = EmptyHands
    /\ ready = [p \in Pids |-> FALSE]
    /\ is_bot = [p \in Pids |-> FALSE]
    /\ deck = <<>>
    /\ discard_pile = <<>>
    /\ current_player_index = 0
    /\ dealer_index = 0
    /\ game_started = FALSE
    /\ chosen_suit = NoSuit
    /\ waiting_for_eight = FALSE
    /\ card_drawn_this_turn = FALSE
    /\ eight_draw_used = FALSE
    /\ eight_drawn_cards = {}
    /\ countdown_active = FALSE
    /\ countdown_task = 0
    /\ last_loser_id = NoPlayer
    /\ creator_id = 1
    /\ gen = 0
    /\ moves = 0
    /\ ctask = [t \in 1 .. MaxTasks |-> NoTask]
    /\ tr_pending = {}
    /\ ge_pc = [p \in Pids |-> "idle"]
    /\ ge_kick = [p \in Pids |-> <<>>]
    /\ ge_results = [p \in Pids |-> NoResults]
    /\ is_private = FALSE
    /\ bot_tasks = [p \in Pids |-> 0]
    /\ error = NoError
    /\ final_winner = <<>>
    /\ clients = {p \in Seated : ~is_bot[p]}
    /\ reconnect_reply = <<>>

NextReject ==
    \/ \E p \in Pids, size \in {36, 52} : handle_change_deck_size(p, size)
    \/ \E p \in Pids, private \in BOOLEAN : handle_toggle_private(p, private)
    \/ \E p \in Pids :
          ~game_started /\ gen < MaxRounds /\ tr_pending = {} /\ ToggleReadyFlip(p)
    \/ \E p \in Pids : ToggleReadyDecide(p)
    \/ \E p \in Pids : \E card \in hand[p], suit \in SuitChoices \cup {NoSuit} :
          handle_play_card(p, card, suit)
    \/ \E p \in Pids : handle_draw_card(p)
    \/ \E p \in Pids : handle_skip_turn(p)
    \/ \E w \in Pids : GameEndStep(w)
    \/ \E p \in Pids : \E card \in SeqToSet(deck_list(deck_size, gen)) :
          RefusePlayCard(p, card)
    \/ \E p \in Pids : RefuseDrawCard(p)
    \/ \E p \in Pids : RefuseSkipTurn(p)
    \/ \E p \in Pids, size \in {36, 52, 54} : RefuseChangeDeckSize(p, size)
    \/ \E p \in Pids : RefuseTogglePrivate(p)

SpecReject == InitReject /\ [][NextReject]_vars

\* Two clients play a round: they play, draw and skip, and the draws and
\* skips the server refuses are replied to.
NextTurn ==
    \/ \E p \in Pids, size \in {36, 52} : handle_change_deck_size(p, size)
    \/ \E p \in Pids :
          ~game_started /\ gen < MaxRounds /\ tr_pending = {} /\ ToggleReadyFlip(p)
    \/ \E p \in Pids : ToggleReadyDecide(p)
    \/ \E p \in Pids : \E card \in hand[p], suit \in SuitChoices \cup {NoSuit} :
          handle_play_card(p, card, suit)
    \/ \E p \in Pids : handle_draw_card(p)
    \/ \E p \in Pids : handle_skip_turn(p)
    \/ \E w \in Pids : GameEndStep(w)
    \/ \E p \in Pids : RefuseDrawCard(p)
    \/ \E p \in Pids : RefuseSkipTurn(p)

SpecTurn == InitReject /\ [][NextTurn]_vars

\* A round in progress: two seats and the table as start_game leaves them
\* (deck 0 of the behaviour), both seats still ready as at the start.
InitRestart ==
    \E size \in {36, 52} :
      \E o \in start_game(<<1, 2>>, size, 0, NoPlayer, FALSE, FALSE, NoSuit) :
        /\ deck_size = size
        /\ hand = o.hand
        /\ deck = o.deck
        /\ discard_pile = o.discard_pile
        /\ dealer_index = o.dealer_index
        /\ current_player_index = o.current_player_index
        /\ waiting_for_eight = o.waiting_for_eight
        /\ eight_draw_used = o.eight_draw_used
        /\ chosen_suit = o.chosen_suit
        /\ room_exists = TRUE
        /\ players = <<1, 2>>
        /\ ready = [p \in Pids |-> p \in {1, 2}]
        /\ score = [p \in Pids |-> 0]
        /\ is_bot = [p \in Pids |-> FALSE]
        /\ game_started = TRUE
        /\ card_drawn_this_turn = FALSE
        /\ eight_drawn_cards = {}
        /\ countdown_active = FALSE
        /\ countdown_task = 0
        /\ last_loser_id = NoPlayer
        /\ creator_id = 1
        /\ gen = 0
        /\ moves = 0
        /\ ctask = [t \in 1 .. MaxTasks |-> NoTask]
        /\ tr_pending = {}
        /\ ge_pc = [p \in Pids |-> "idle"]
        /\ ge_kick = [p \in Pids |-> <<>>]
        /\ ge_results = [p \in Pids |-> NoResults]
        /\ is_private = FALSE
        /\ bot_tasks = [p \in Pids |-> 0]
        /\ error = NoError
        /\ final_winner = <<>>
        /\ clients = {p \in Seated : ~is_bot[p]}
        /\ reconnect_reply = <<>>

\* The round dealt at Init, with toggle_ready requests arriving during it,
\* one at a time, up to the start_game they lead to.
NextRestart ==
    \/ \E p \in Pids : gen < MaxRounds /\ tr_pending = {} /\ ToggleReadyFlip(p)
    \/ \E p \in Pids : ToggleReadyDecide(p)
    \/ \E p \in Pids : \E card \in hand[p], suit \in SuitChoices \cup {NoSuit} :
          gen < MaxRounds /\ handle_play_card(p, card, suit)
    \/ \E p \in Pids : gen < MaxRounds /\ handle_draw_card(p)
    \/ \E p \in Pids : gen < MaxRounds /\ handle_skip_turn(p)
    \/ \E w \in Pids : GameEndStep(w)

SpecRestart == InitRestart /\ [][NextRestart]_vars

\* A room made by handle_create_bot_game: the creator and one bot or more,
\* the bots ready, 52 cards.
InitBot ==
    \E n \in 2 .. MaxSeats :
        /\ players = [i \in 1 .. n |-> i]
        /\ is_bot = [p \in Pids |-> 1 < p /\ p <= n]
        /\ ready = [p \in Pids |-> 1 < p /\ p <= n]
        /\ score = [p \in Pids |-> 0]
        /\ deck_size = 52
        /\ room_exists = TRUE
        /\ hand = EmptyHands
        /\ deck = <<>>
        /\ discard_pile = <<>>
        /\ current_player_index = 0
        /\ dealer_index = 0
        /\ game_started = FALSE
        /\ chosen_suit = NoSuit
        /\ waiting_for_eight = FALSE
        /\ card_drawn_this_turn = FALSE
        /\ eight_draw_used = FALSE
        /\ eight_drawn_cards = {}
        /\ countdown_active = FALSE
        /\ countdown_task = 0
        /\ last_loser_id = NoPlayer
        /\ creator_id = 1
        /\ gen = 0
        /\ moves = 0
        /\ ctask = [t \in 1 .. MaxTasks |-> NoTask]
        /\ tr_pending = {}
        /\ ge_pc = [p \in Pids |-> "idle"]
        /\ ge_kick = [p \in Pids |-> <<>>]
        /\ ge_results = [p \in Pids |-> NoResults]
        /\ is_private = FALSE
        /\ bot_tasks = [p \in Pids |-> 0]
        /\ error = NoError
        /\ final_winner = <<>>
        /\ clients = {p \in Seated : ~is_bot[p]}
        /\ reconnect_reply = <<>>

\* A game against bots: the creator picks the deck, gets ready and plays; the
\* bots' calls wake.
NextBot ==
    \/ \E p \in Pids, size \in {36, 52} : handle_change_deck_size(p, size)
    \/ \E p \in Pids :
          ~game_started /\ gen < MaxRounds /\ tr_pending = {} /\ ToggleReadyFlip(p)
    \/ \E p \in Pids : ToggleReadyDecide(p)
    \/ \E p \in Pids : \E card \in hand[p], suit \in SuitChoices \cup {NoSuit} :
          handle_play_card(p, card, suit)
    \/ \E p \in Pids : handle_draw_card(p)
    \/ \E p \in Pids : handle_skip_turn(p)
    \/ \E b \in Pids : BotWake(b)
    \/ \E w \in Pids : GameEndStep(w)

\* A game against bots with a stop and start of the server at any moment.
NextStore ==
    \/ NextBot
    \/ SaveAndLoad

SpecStore == InitBot /\ [][NextStore]_vars

\* A round of two seats at any point of the flow of the cards: a deck of
\* up to MaxDeckIn cards and a discard pile of up to MaxDiscardIn cards,
\* cut from a shuffle of the 52-card deck; the first seat holds the rest.
InitReplenish ==
    \E s \in create_deck(52, 1), i \in 0 .. MaxDeckIn, j \in 0 .. MaxDiscardIn :
        /\ deck = SubSeq(s, 1, i)
        /\ discard_pile = SubSeq(s, i + 1, i + j)
        /\ hand = [p \in Pids |-> IF p = 1 THEN {s[k] : k \in i + j + 1 .. Len(s)}
                                  ELSE {}]
        /\ room_exists = TRUE
        /\ players = <<1, 2>>
        /\ score = [p \in Pids |-> 0]
        /\ deck_size = 52
        /\ ready = [p \in Pids |-> p \in {1, 2}]
        /\ is_bot = [p \in Pids |-> FALSE]
        /\ current_player_index = 0
        /\ dealer_index = 1
        /\ game_started = TRUE
        /\ chosen_suit = NoSuit
        /\ waiting_for_eight = FALSE
        /\ card_drawn_this_turn = FALSE
        /\ eight_draw_used = FALSE
        /\ eight_drawn_cards = {}
        /\ countdown_active = FALSE
        /\ countdown_task = 0
        /\ last_loser_id = NoPlayer
        /\ creator_id = 1
        /\ gen = 1
        /\ moves = 0
        /\ ctask = [t \in 1 .. MaxTasks |-> NoTask]
        /\ tr_pending = {}
        /\ ge_pc = [p \in Pids |-> "idle"]
        /\ ge_kick = [p \in Pids |-> <<>>]
        /\ ge_results = [p \in Pids |-> NoResults]
        /\ is_private = FALSE
        /\ bot_tasks = [p \in Pids |-> 0]
        /\ error = NoError
        /\ final_winner = <<>>
        /\ clients = {p \in Seated : ~is_bot[p]}
        /\ reconnect_reply = <<>>

\* One call of replenish_deck on the room.  The call is counted in moves,
\* so that a call that changes nothing is a step as well.
Replenish ==
    /\ moves < MaxCalls
    /\ moves' = moves + 1
    /\ \E r \in replenish_deck(deck, discard_pile) :
          /\ deck' = r.deck
          /\ discard_pile' = r.discard_pile
    /\ UNCHANGED <<current_player_index, dealer_index, game_started, chosen_suit,
                   waiting_for_eight, card_drawn_this_turn, eight_draw_used,
                   eight_drawn_cards, gen>>
    /\ UNCHANGED <<seatVars, lobbyVars, roomVars, endVars, botVars, replyVars, connVars>>

NextReplenish == Replenish

SpecReplenish == InitReplenish /\ [][NextReplenish]_vars
\* A game against bots whose creator's connection may close and come back.
NextReconnect ==
    \/ NextBot
    \/ \E p \in Pids : Disconnect(p)
    \/ \E p \in Pids : DisconnectInProgress(p)
    \/ \E p \in Pids : handle_reconnect(p)

SpecReconnect == InitBot /\ [][NextReconnect]_vars

\* A 52-card round of three seats just dealt, and what the seats can send during it
\* other than moves: toggle_ready (handle_toggle_ready does not look at
\* game_started), and the countdown tasks these start.
InitMidRound ==
      \E o \in start_game(<<1, 2, 3>>, 52, 0, NoPlayer, FALSE, FALSE, NoSuit) :
        /\ deck_size = 52
        /\ hand = o.hand
        /\ deck = o.deck
        /\ discard_pile = o.discard_pile
        /\ dealer_index = o.dealer_index
        /\ current_player_index = o.current_player_index
        /\ waiting_for_eight = o.waiting_for_eight
        /\ eight_draw_used = o.eight_draw_used
        /\ chosen_suit = o.chosen_suit
        /\ room_exists = TRUE
        /\ players = <<1, 2, 3>>
        /\ ready = [p \in Pids |-> TRUE]
        /\ score = [p \in Pids |-> 0]
        /\ is_bot = [p \in Pids |-> FALSE]
        /\ game_started = TRUE
        /\ card_drawn_this_turn = FALSE
        /\ eight_drawn_cards = {}
        /\ countdown_active = FALSE
        /\ countdown_task = 0
        /\ last_loser_id = NoPlayer
        /\ creator_id = 1
        /\ gen = 0
        /\ moves = 0
        /\ ctask = [t \in 1 .. MaxTasks |-> NoTask]
        /\ tr_pending = {}
        /\ ge_pc = [p \in Pids |-> "idle"]
        /\ ge_kick = [p \in Pids |-> <<>>]
        /\ ge_results = [p \in Pids |-> NoResults]
        /\ is_private = FALSE
        /\ bot_tasks = [p \in Pids |-> 0]
        /\ error = NoError
        /\ final_winner = <<>>
        /\ clients = {p \in Seated : ~is_bot[p]}
        /\ reconnect_reply = <<>>

NextMidRound ==
    \/ \E p \in Pids : tr_pending = {} /\ ToggleReadyFlip(p)
    \/ \E p \in Pids : ToggleReadyDecide(p)
    \/ \E t \in 1 .. MaxTasks : CountdownTick(t)
    \/ \E t \in 1 .. MaxTasks : CountdownSent(t)
    \/ \E t \in 1 .. MaxTasks : CountdownExpire(t)

SpecMidRound == InitMidRound /\ [][NextMidRound]_vars

\* The room of Spec whose creator may also make it private and public again.
NextSeats ==
    \/ Next
    \/ \E p \in Pids, private \in BOOLEAN : handle_toggle_private(p, private)

SpecSeats == Init /\ [][NextSeats]_vars

\* The event loop runs every task that can run: a sleeping make_bot_move
\* call wakes and a handle_game_end whose send returned goes on.  Nothing is
\* assumed of the clients, who may stay silent for ever.
SpecBot ==
    /\ InitBot /\ [][NextBot]_vars
    /\ \A b \in Pids : WF_vars(BotWake(b))
    /\ \A w \in Pids : WF_vars(GameEndStep(w))

\* ================================================================ claims
RECURSIVE HandTotal(_, _)
HandTotal(ps, hands) ==
    IF ps = <<>> THEN 0
    ELSE Cardinality(hands[Head(ps)]) + HandTotal(Tail(ps), hands)

Min(a, b) == IF a < b THEN a ELSE b

LiveTasks == {t \in 1 .. MaxTasks : ctask[t].pc \in {"new", "send", "sleep"}}

\* C1: while the game is started, the draw pile, the discard pile and the
\* seats' hands partition the deck start_game built: together they hold
\* exactly its cards, and their sizes add up to its size.
C1_Conservation ==
    game_started =>
        LET built == SeqToSet(deck_list(deck_size, gen))
        IN  /\ SeqToSet(deck) \cup SeqToSet(discard_pile)
                 \cup UNION {hand[p] : p \in Seated} = built
            /\ Len(deck) + Len(discard_pile) + HandTotal(players, hand)
                 = Cardinality(built)

\* C2: at most one action mutates the room at a time: while a
\* handle_toggle_ready has flipped the flag and not yet decided, or a
\* handle_game_end has tallied and not yet reset, the only step that changes
\* the room is that handler's own next one.
C2_OneActionAtATime ==
    [][/\ \A p \in tr_pending : tr_pending' = tr_pending \ {p}
       /\ \A w \in Pids : ge_pc[w] # "idle" =>
              (ge_pc'[w] # ge_pc[w] \/ ge_kick'[w] # ge_kick[w])]_vars

\* C3: while the game is started, current_player_index is an index of the
\* seat list.
C3_IndexInRange ==
    game_started =>
        (0 <= current_player_index /\ current_player_index < Len(players))

\* C4 (as stated): a play that empties the hand applies none of the card's
\* effects: no other seat's hand changes, and with an A, an 8 or a Q neither
\* the turn nor a flag changes.
C4_NoEffectOnWin ==
    [][\A p \in Pids : \A c \in hand[p] :
         (ge_pc[p] = "idle" /\ ge_pc'[p] = "results" /\ Top(discard_pile') = c) =>
            /\ \A q \in Seated \ {p} : hand'[q] = hand[q]
            /\ c.rank \in {"A", "8", "Q"} =>
                  /\ current_player_index' = current_player_index
                  /\ card_drawn_this_turn' = card_drawn_this_turn
                  /\ chosen_suit' = chosen_suit
                  /\ waiting_for_eight' = waiting_for_eight
                  /\ eight_draw_used' = eight_draw_used]_vars

\* C4 (amended): a play that empties the hand ends the round in the same
\* step, after the forced draw of a 6 or a 7: the next seat takes 1 card for
\* a 6 and 2 for a 7, as many as the deck and the discards can give, and no
\* other hand changes; the turn and card_drawn_this_turn stay as they were, no
\* 8-chain is pending afterwards, and the chosen suit is cleared unless the
\* card is a Q, which leaves it as it was.
C4_WinningPlay ==
    [][\A p \in Pids : \A c \in hand[p] :
         (ge_pc[p] = "idle" /\ ge_pc'[p] = "results" /\ Top(discard_pile') = c) =>
            LET i == current_player_index
                n == Len(players)
                next == players[((i + 1) % n) + 1]
                k == IF c.rank = "6" THEN 1 ELSE IF c.rank = "7" THEN 2 ELSE 0
            IN  /\ hand'[p] = {}
                /\ game_started'
                /\ \A q \in Seated \ {p, next} : hand'[q] = hand[q]
                /\ next # p =>
                     /\ hand[next] \subseteq hand'[next]
                     /\ Cardinality(hand'[next]) = Cardinality(hand[next])
                            + Min(k, Len(deck) + Len(discard_pile))
                /\ current_player_index' = i
                /\ card_drawn_this_turn' = card_drawn_this_turn
                /\ waiting_for_eight' = FALSE
                /\ eight_draw_used' = (~waiting_for_eight /\ eight_draw_used)
                /\ chosen_suit' = IF c.rank = "Q" THEN chosen_suit ELSE NoSuit]_vars

\* A 6 or a 7 won the round and the seat after the winner drew for it.
C4_Witness ==
    \E p \in Seated :
        /\ ge_pc[p] = "results"
        /\ discard_pile # <<>>
        /\ Top(discard_pile).rank \in {"6", "7"}
        /\ \E q \in Seated : Cardinality(hand[q]) > HandSize

\* C5: the seat to move may play a card of its hand iff the card is legal:
\* inside an 8-chain iff it is a 2 or was drawn for the chain; else iff it is
\* a Q, or matches the chosen suit or the top card's rank when a suit is
\* chosen, or matches the top card's suit or rank when none is.
C5_Legality ==
    (/\ room_exists /\ game_started /\ moves < MaxMoves
     /\ discard_pile # <<>>
     /\ current_player_index < Len(players)
     /\ ~Busy(players[current_player_index + 1])) =>
        LET p == players[current_player_index + 1]
            top == discard_pile[Len(discard_pile)]
        IN  \A c \in hand[p] :
              (ENABLED handle_play_card(p, c, NoSuit)) <=>
                 IF waiting_for_eight
                 THEN c.rank = "2" \/ c \in eight_drawn_cards
                 ELSE \/ c.rank = "Q"
                      \/ /\ chosen_suit # NoSuit
                         /\ (c.suit = chosen_suit \/ c.rank = top.rank)
                      \/ /\ chosen_suit = NoSuit
                         /\ (c.suit = top.suit \/ c.rank = top.rank)

\* A card that matches neither the suit nor the rank of the top card was
\* accepted: it had been drawn for the 8-chain, or it has the chosen suit.
C5_Witness ==
    /\ moves = 1
    /\ Len(discard_pile) = 2
    /\ discard_pile[2].rank \notin {"2", "Q"}
    /\ discard_pile[2].rank # discard_pile[1].rank
    /\ discard_pile[2].suit # discard_pile[1].suit

\* C6: after a play that does not win, the turn is with seat (i + 2) mod n
\* when the card is a 6, a 7 or an A and with seat (i + 1) mod n otherwise,
\* and the seat after the player took 1 card for a 6 and 2 for a 7, as many
\* as the deck and the discards could give.
C6_TurnAfterPlay ==
    [][(game_started /\ current_player_index < Len(players)) =>
         \A c \in hand[players[current_player_index + 1]] :
            (/\ discard_pile' # <<>>
             /\ Top(discard_pile') = c
             /\ ge_pc' = ge_pc) =>
               LET i == current_player_index
                   n == Len(players)
                   next == players[((i + 1) % n) + 1]
                   k == IF c.rank = "6" THEN 1 ELSE IF c.rank = "7" THEN 2 ELSE 0
               IN  /\ current_player_index' =
                        IF c.rank \in {"6", "7", "A"} THEN (i + 2) % n
                        ELSE (i + 1) % n
                   /\ next # players[i + 1] =>
                        Cardinality(hand'[next]) = Cardinality(hand[next])
                            + Min(k, Len(deck) + Len(discard_pile))]_vars

\* An A was played on a pile, did not win, and the game goes on.
C6_Witness ==
    /\ game_started
    /\ \A w \in Pids : ge_pc[w] = "idle"
    /\ Len(discard_pile) >= 2
    /\ Top(discard_pile).rank = "A"
    /\ Len(players) = 3

\* C7: a countdown task that was cancelled emits no further tick and never
\* performs its expiry.
C7_CancelStops ==
    [][\A t \in 1 .. MaxTasks :
         ctask[t].cancelled =>
            /\ ctask'[t].secs = ctask[t].secs
            /\ ~(ctask[t].pc = "sleep" /\ ctask'[t].pc = "done")]_vars

\* C8: at most one countdown task is live, and a step in which start_game
\* runs leaves no countdown pending: countdown_active is false and no task is
\* live.
C8_OneCountdown ==
    /\ [](Cardinality(LiveTasks) <= 1)
    /\ [][gen' # gen => (~countdown_active' /\ LiveTasks' = {})]_vars

C10_DiscardNonEmpty == game_started => discard_pile # <<>>

\* The discards were shuffled back into the deck: cards were played, the
\* hands hold fewer than were dealt, and the pile is one card again.
C10_Witness ==
    /\ game_started
    /\ Len(discard_pile) = 1
    /\ HandTotal(players, hand) < Len(players) * HandSize

\* C11: waiting_for_eight and a chosen suit never hold together: in no
\* state is an 8-chain pending while chosen_suit is set.
C11_EightXorSuit == ~(waiting_for_eight /\ chosen_suit # NoSuit)

\* C12: the draw of the seat to move during an 8-chain takes at most as many
\* cards as the deck has, and ends in exactly one of two ways.  Either the
\* draw stopped at a card that qualifies (a 2, a Q, an 8 or a card of the top
\* discard's suit -- the only such card among those drawn) and the chain
\* stays pending for the same seat; or no card drawn qualifies, the deck is
\* empty and the discard pile holds at most one card, and waiting_for_eight,
\* eight_draw_used and eight_drawn_cards are cleared and the turn moves on by
\* one seat.
C12_EightDraw ==
    [][(/\ game_started /\ waiting_for_eight
        /\ current_player_index < Len(players)
        /\ moves' = moves + 1
        /\ hand[players[current_player_index + 1]]
               \subseteq hand'[players[current_player_index + 1]]) =>
          LET p == players[current_player_index + 1]
              got == hand'[p] \ hand[p]
              good == {c \in got : \/ c.rank \in {"2", "Q", "8"}
                                   \/ c.suit = Top(discard_pile').suit}
              pending == /\ Cardinality(good) = 1
                         /\ waiting_for_eight' /\ eight_draw_used'
                         /\ got \subseteq eight_drawn_cards'
                         /\ current_player_index' = current_player_index
              exhausted == /\ good = {}
                           /\ deck' = <<>> /\ Len(discard_pile') <= 1
                           /\ ~waiting_for_eight' /\ ~eight_draw_used'
                           /\ eight_drawn_cards' = {}
                           /\ current_player_index' =
                                  (current_player_index + 1) % Len(players)
          IN  /\ Cardinality(got) <= Len(deck_list(deck_size, gen))
              /\ Len(deck_list(deck_size, gen)) <= deck_size
              /\ pending # exhausted]_vars

\* The seat answering the first table card, an 8, drew the deck empty without
\* a card that qualifies: the chain is over and the deck and the discards
\* can give no card.
C12_Witness ==
    /\ game_started /\ moves = 1 /\ deck_size = 52
    /\ ~waiting_for_eight
    /\ deck = <<>>
    /\ Len(discard_pile) = 1 /\ Top(discard_pile).rank = "8"
    /\ \E p \in Seated : Cardinality(hand[p]) = HandSize + 1

\* It is the turn of bot b in a started game and no round end is under way.
BotToMove(b) ==
    /\ room_exists /\ game_started
    /\ is_bot[b]
    /\ current_player_index < Len(players)
    /\ players[current_player_index + 1] = b
    /\ \A w \in Pids : ge_pc[w] = "idle"

\* C13: whenever it is the turn of a bot in a started game, a move of that
\* bot is eventually executed (only the bot can move then, and every move
\* executed counts in moves).
C13_BotMoves ==
    \A b \in Pids : \A m \in 0 .. MaxMoves - 1 :
        (BotToMove(b) /\ moves = m) ~> (moves # m)

C14_AllReadyStarts ==
    (/\ room_exists /\ ~game_started
     /\ Len(players) >= 2
     /\ \A p \in Seated : ready[p]) => tr_pending # {}

\* C15: in a lobby of more than two seats the handle_toggle_ready that finds
\* two seats ready, not all, and no countdown active starts a countdown of
\* CountdownTicks ticks and no game; the one that finds fewer than two ready
\* while a countdown is active cancels it, and a cancelled countdown never
\* starts a game.
C15_Countdown ==
    [][/\ \A p \in tr_pending :
            (/\ p \notin tr_pending'
             /\ Len(players) > 2
             /\ ready_count(players, ready) = 2
             /\ ~countdown_active)
            => /\ countdown_active'
               /\ countdown_task' \in FreeTasks
               /\ ctask'[countdown_task'] =
                     [pc |-> "new", secs |-> CountdownTicks, cancelled |-> FALSE]
               /\ gen' = gen
       /\ \A p \in tr_pending :
            (/\ p \notin tr_pending'
             /\ ready_count(players, ready) < 2
             /\ countdown_active)
            => /\ ~countdown_active'
               /\ ctask'[countdown_task].cancelled
               /\ gen' = gen
       /\ \A t \in 1 .. MaxTasks :
            (ctask[t].cancelled /\ ctask[t].pc = "sleep" /\ ctask'[t].pc = "done")
            => gen' = gen]_vars

\* C16: the step in which a countdown task performs its expiry (it was in
\* its last sleep and ends without being cancelled in that step): with two
\* or more seats ready the seats become exactly the ready ones in their
\* order and a game starts; with fewer no seat is removed, no game starts
\* and seats, hands, table and room fields are unchanged.
C16_Expiry ==
    [][\A t \in 1 .. MaxTasks :
         (/\ ctask[t].pc = "sleep" /\ ctask[t].secs = 0
          /\ ctask'[t].pc = "done"
          /\ ctask'[t].cancelled = ctask[t].cancelled)
         => IF ready_count(players, ready) >= 2
            THEN /\ players' = SelectSeq(players, LAMBDA p : ready[p])
                 /\ game_started'
                 /\ gen' = gen + 1
                 /\ \A p \in Seated' : Cardinality(hand'[p]) >= HandSize
            ELSE /\ players' = players
                 /\ game_started' = game_started
                 /\ gen' = gen
                 /\ UNCHANGED <<seatVars, tableVars, roomVars, endVars>>]_vars

\* A countdown ran out uncancelled in a room of three seats, dropped the
\* seat that was not ready and started the game with the other two.
C16_Witness ==
    /\ game_started
    /\ gen = 1
    /\ Len(players) = 2
    /\ \A p \in Seated : ready[p]
    /\ \E t \in 1 .. MaxTasks :
          ctask[t] = [pc |-> "done", secs |-> 0, cancelled |-> FALSE]
    /\ tr_pending = {}

\* The seats that stay when the seats above KickScore leave.
Remaining == {p \in Seated : score[p] <= KickScore}

RulePoints(suit, rank) ==
    IF rank = "Q" THEN (IF suit = "spades" THEN 40 ELSE 20)
    ELSE ("2" :> 2 @@ "3" :> 3 @@ "4" :> 4 @@ "5" :> 5 @@ "6" :> 6 @@ "7" :> 7
          @@ "8" :> 8 @@ "9" :> 9 @@ "10" :> 10 @@ "J" :> 2 @@ "K" :> 4
          @@ "A" :> 11)[rank]

RECURSIVE RuleHandPoints(_)
RuleHandPoints(h) ==
    IF h = {} THEN 0
    ELSE LET c == CHOOSE x \in h : TRUE
         IN  RulePoints(c.suit, c.rank) + RuleHandPoints(h \ {c})

\* C18: calculate_card_points gives every card of the four suits and
\* thirteen ranks its value under the rules, and in the step that tallies a
\* round the tallied score of each seat that did not win is its score plus
\* the value of the hand it is left with, and that of the winner is its score
\* minus 40 if the winning card is the Q of spades, minus 20 for another Q,
\* unchanged otherwise; the seat's score becomes the tallied score (0 if
\* that is exactly KickScore).
C18_Tally ==
    /\ [](\A i \in 1 .. Len(SuitOrder), j \in 1 .. Len(RankOrder) :
            calculate_card_points(Card(0, SuitOrder[i], RankOrder[j]))
                = RulePoints(SuitOrder[i], RankOrder[j]))
    /\ [][\A w \in Pids :
            (ge_pc[w] = "idle" /\ ge_pc'[w] = "results") =>
               \A q \in Seated :
                  LET winning_card == Top(discard_pile')
                      change == IF q # w THEN RuleHandPoints(hand'[q])
                                ELSE IF winning_card.rank # "Q" THEN 0
                                ELSE IF winning_card.suit = "spades" THEN -40
                                ELSE -20
                  IN  /\ ge_results'[w][q] = score[q] + change
                      /\ score'[q] = IF score[q] + change = KickScore THEN 0
                                     ELSE score[q] + change]_vars

\* A round was won with the Q of spades in a room whose seats had no score,
\* and a seat that did not win was left with cards.
C18_Witness ==
    \E w \in Seated :
       /\ ge_pc[w] = "results"
       /\ discard_pile # <<>>
       /\ Top(discard_pile).rank = "Q" /\ Top(discard_pile).suit = "spades"
       /\ score[w] = -40
       /\ \E q \in Seated \ {w} : hand[q] # {} /\ score[q] > 0

\* C19: a step in which a handler replies with an error changes no field
\* of the room: seats, hands, scores, deck, discard pile, turn pointer,
\* flags, deck size, privacy.
C19_RefusedUnchanged ==
    [][error' # error =>
         UNCHANGED <<seatVars, tableVars, lobbyVars, roomVars, endVars>>]_vars

\* A second draw was refused in the turn in which the seat drew the last
\* card of the deck, with discards that replenish_deck would have shuffled.
C19_Witness ==
    /\ error = "Card already drawn this turn"
    /\ game_started
    /\ card_drawn_this_turn
    /\ deck = <<>>
    /\ Len(discard_pile) > 1

\* C21: a countdown task changes seats, hands or table only at an expiry
\* that finds the room registered, in the lobby, and its own countdown still
\* the active one.
C21_CountdownWakeChecks ==
    [][\A t \in 1 .. MaxTasks :
         (/\ ctask[t].pc = "sleep" /\ ctask[t].secs = 0
          /\ ctask'[t].pc = "done"
          /\ ctask'[t].cancelled = ctask[t].cancelled
          /\ <<seatVars, tableVars>>' # <<seatVars, tableVars>>)
         => /\ room_exists
            /\ ~game_started
            /\ countdown_active /\ countdown_task = t]_vars

\* C22: the room that load_room builds from what save_room_to_db stored is
\* the room that was saved: seats and their order, hands, ready, score,
\* is_bot, deck, discard pile and the fields of the room.
C22_SaveLoad ==
    room_exists =>
        LET loaded == load_room(save_room_to_db(Room))
        IN  /\ loaded.players = players
            /\ \A p \in Seated :
                  /\ loaded.hand[p] = hand[p]
                  /\ loaded.ready[p] = ready[p]
                  /\ loaded.score[p] = score[p]
                  /\ loaded.is_bot[p] = is_bot[p]
            /\ loaded.deck = deck
            /\ loaded.discard_pile = discard_pile
            /\ loaded.current_player_index = current_player_index
            /\ loaded.dealer_index = dealer_index
            /\ loaded.game_started = game_started
            /\ loaded.chosen_suit = chosen_suit
            /\ loaded.waiting_for_eight = waiting_for_eight
            /\ loaded.eight_draw_used = eight_draw_used
            /\ loaded.card_drawn_this_turn = card_drawn_this_turn
            /\ loaded.last_loser_id = last_loser_id
            /\ loaded.deck_size = deck_size
            /\ loaded.creator_id = creator_id
            /\ loaded.is_private = is_private

\* The hands that differ from the present ones only in the cards seat b
\* holds, as many as it holds now.
OtherHands(b) ==
    {[hand EXCEPT ![b] = alt] :
        alt \in {c \in SUBSET SeqToSet(deck_list(deck_size, gen)) :
                   Cardinality(c) = Cardinality(hand[b])}}

\* What the events of a round and room_updated tell seat a when the hands
\* are h.
RoundEvents(h, a) ==
    <<[d \in Seated |-> table_event(h, a, d)], room_updated_event(h)>>

\* C23 as stated: no event tells seat a which cards another seat b holds,
\* game_ended included.
C23_NoHandInAnyEvent ==
    \A a \in Seated : \A b \in Seated \ {a} : \A h \in OtherHands(b) :
        /\ RoundEvents(h, a) = RoundEvents(hand, a)
        /\ \A w \in Pids :
              ge_pc[w] = "results" => game_ended_event(h, w) = game_ended_event(hand, w)

\* C23: game_started, card_played, card_drawn, turn_skipped and
\* room_updated tell seat a the same whatever cards another seat b holds,
\* for as many cards as b holds.
C23_HandsHidden ==
    \A a \in Seated : \A b \in Seated \ {a} : \A h \in OtherHands(b) :
        RoundEvents(h, a) = RoundEvents(hand, a)

\* A bot holds cards it drew for an 8-chain, and the creator is sent events.
C23_Witness ==
    /\ game_started
    /\ eight_drawn_cards # {}
    /\ \E b \in Seated :
          /\ is_bot[b]
          /\ current_player_is(b)
          /\ eight_drawn_cards \cap hand[b] # {}
    /\ \E a \in Seated : ~is_bot[a] /\ hand[a] # {}

\* C24 as stated: a connection that closes while the game is in progress
\* (started, or a seat has a score) changes nothing in the room, and a
\* later reconnect of the seat attaches the connection and reports the
\* seat's hand, the top card, the turn pointer and the flags.
C24_ReconnectReportsTable ==
    [][\A p \in Pids :
         /\ (p \in clients /\ p \notin clients'
                /\ (game_started \/ \E q \in Seated : score[q] > 0))
              => UNCHANGED <<seatVars, tableVars, roomVars, countdown_active,
                             countdown_task>>
         /\ (p \in Seated /\ p \notin clients /\ p \in clients' /\ error' = error)
              => /\ UNCHANGED <<seatVars, tableVars, roomVars, countdown_active,
                                countdown_task>>
                 /\ Len(reconnect_reply') = 1
                 /\ reconnect_reply'[1].type = "game_started"
                 /\ reconnect_reply'[1].state.hand = hand[p]
                 /\ reconnect_reply'[1].state.top_card = <<Top(discard_pile)>>
                 /\ reconnect_reply'[1].state.current_player = current_player_index
                 /\ reconnect_reply'[1].state.chosen_suit = chosen_suit
                 /\ reconnect_reply'[1].state.waiting_for_eight = waiting_for_eight
                 /\ reconnect_reply'[1].state.eight_draw_used = eight_draw_used
                 /\ reconnect_reply'[1].state.card_drawn_this_turn = card_drawn_this_turn
      ]_vars

\* C24, amended: the table is reported when the game is started; between
\* two rounds, when no hand is held and no card lies on the table, the
\* reconnect reports the room with its seats, their ready flags and scores.
C24_Reconnect ==
    [][\A p \in Pids :
         /\ (p \in clients /\ p \notin clients'
                /\ (game_started \/ \E q \in Seated : score[q] > 0))
              => UNCHANGED <<seatVars, tableVars, roomVars, countdown_active,
                             countdown_task>>
         /\ (p \in Seated /\ p \notin clients /\ p \in clients' /\ error' = error)
              => /\ UNCHANGED <<seatVars, tableVars, roomVars, countdown_active,
                                countdown_task>>
                 /\ Len(reconnect_reply') = 1
                 /\ IF game_started
                    THEN /\ reconnect_reply'[1].type = "game_started"
                         /\ reconnect_reply'[1].state.hand = hand[p]
                         /\ reconnect_reply'[1].state.top_card = <<Top(discard_pile)>>
                         /\ reconnect_reply'[1].state.current_player = current_player_index
                         /\ reconnect_reply'[1].state.chosen_suit = chosen_suit
                         /\ reconnect_reply'[1].state.waiting_for_eight = waiting_for_eight
                         /\ reconnect_reply'[1].state.eight_draw_used = eight_draw_used
                         /\ reconnect_reply'[1].state.card_drawn_this_turn
                               = card_drawn_this_turn
                    ELSE /\ reconnect_reply'[1].type = "room_joined"
                         /\ reconnect_reply'[1].player_id = p
                         /\ hand[p] = {}
                         /\ discard_pile = <<>>
                         /\ reconnect_reply'[1].room.players
                               = [i \in 1 .. Len(players) |->
                                    [id |-> players[i], hand_count |-> 0,
                                     ready |-> ready[players[i]],
                                     score |-> score[players[i]],
                                     is_bot |-> is_bot[players[i]]]]
      ]_vars

\* A seat was away in the middle of a round, while it held cards and the
\* turn had moved on, and is back with the table it was sent.
C24_Witness ==
    /\ game_started
    /\ moves > 0
    /\ 1 \in clients
    /\ hand[1] # {}
    /\ reconnect_reply # <<>>
    /\ reconnect_reply[1].type = "game_started"
    /\ reconnect_reply[1].state.hand = hand[1]
    /\ reconnect_reply[1].state.current_player = current_player_index
    /\ bot_tasks[2] = 2

\* The seat whose turn it is, NoPlayer when the turn pointer is past the
\* seat list.
CurrentSeat ==
    IF current_player_index < Len(players)
    THEN PlayerAt(players, current_player_index) ELSE NoPlayer

\* C25: outside an 8-chain the current seat takes at most one voluntary
\* draw per turn.  The hand of the current seat grows within a round only
\* if no card was drawn this turn; it grows by exactly one card, the top of
\* the deck (of the replenished deck if the deck was empty), the flag is
\* set and the turn pointer stays.  A draw of the current seat that is
\* refused, which a second draw is and a draw from an empty deck under a
\* discard pile of at most one card, changes nothing in the room.  The flag
\* is cleared by every play that does not end the round and by every skip.
C25_OneDraw ==
    [][/\ (game_started /\ ~waiting_for_eight /\ gen' = gen /\ CurrentSeat # NoPlayer
             /\ hand'[CurrentSeat] # hand[CurrentSeat]
             /\ hand[CurrentSeat] \subseteq hand'[CurrentSeat])
          => /\ ~card_drawn_this_turn
             /\ card_drawn_this_turn'
             /\ current_player_index' = current_player_index
             /\ Cardinality(hand'[CurrentSeat]) = Cardinality(hand[CurrentSeat]) + 1
             /\ \A q \in Pids \ {CurrentSeat} : hand'[q] = hand[q]
             /\ Len(deck') + Len(discard_pile') = Len(deck) + Len(discard_pile) - 1
             /\ IF deck # <<>>
                THEN /\ hand'[CurrentSeat] = hand[CurrentSeat] \cup {Pop(deck)}
                     /\ deck' = Popped(deck)
                     /\ discard_pile' = discard_pile
                ELSE /\ Len(discard_pile) > 1
                     /\ discard_pile' = <<Top(discard_pile)>>
                     /\ hand'[CurrentSeat] \ hand[CurrentSeat] \subseteq SeqToSet(discard_pile)
       /\ \A p \in Pids :
            (RefuseDrawCard(p) /\ p = CurrentSeat /\ ~waiting_for_eight)
              => /\ card_drawn_this_turn \/ (deck = <<>> /\ Len(discard_pile) <= 1)
                 /\ UNCHANGED <<seatVars, tableVars, lobbyVars, roomVars, endVars>>
       /\ \A p \in Pids :
            (game_started /\ ~waiting_for_eight /\ p = CurrentSeat /\ p \in clients
               /\ (card_drawn_this_turn \/ (deck = <<>> /\ Len(discard_pile) <= 1)))
              => ~handle_draw_card(p)
       /\ (game_started /\ game_started' /\ gen' = gen /\ ge_pc' = ge_pc
             /\ discard_pile # <<>> /\ discard_pile' # <<>>
             /\ Top(discard_pile') # Top(discard_pile))
          => ~card_drawn_this_turn'
       /\ (\E p \in Pids : handle_skip_turn(p)) => ~card_drawn_this_turn'
       /\ (card_drawn_this_turn /\ ~card_drawn_this_turn')
          => \/ \E p \in Pids : handle_skip_turn(p)
             \/ Top(discard_pile') # Top(discard_pile)
      ]_vars

\* A card was drawn from a deck refilled from the discard pile, and the seat
\* that drew it was refused a second one.
C25_Witness ==
    /\ game_started
    /\ ~waiting_for_eight
    /\ card_drawn_this_turn
    /\ error = "Card already drawn this turn"
    /\ Len(discard_pile) = 1
    /\ moves >= 3
    /\ CurrentSeat # NoPlayer
    /\ Cardinality(hand[CurrentSeat]) > HandSize

\* C26: in an 8-chain the current seat draws until a match at most once a
\* turn.  The draw happens only while eight_draw_used is false; if the seat
\* keeps the turn the flag is set and every card it took is in
\* eight_drawn_cards; a draw_card of the current seat that is refused in
\* the chain finds the flag set and changes nothing in the room, and no
\* draw is accepted then.  Every card of eight_drawn_cards is in the hand
\* of the current seat, and its play is accepted whatever its suit and
\* rank.
C26_EightDrawOnce ==
    /\ [](  (room_exists /\ game_started /\ waiting_for_eight /\ moves < MaxMoves
               /\ CurrentSeat # NoPlayer /\ Sends(CurrentSeat))
            => \A c \in eight_drawn_cards :
                  /\ c \in hand[CurrentSeat]
                  /\ play_card_error(CurrentSeat, c) = NoError
                  /\ ENABLED handle_play_card(CurrentSeat, c, NoSuit))
    /\ [][/\ (game_started /\ waiting_for_eight /\ gen' = gen /\ CurrentSeat # NoPlayer
                /\ hand'[CurrentSeat] # hand[CurrentSeat]
                /\ hand[CurrentSeat] \subseteq hand'[CurrentSeat])
             => /\ ~eight_draw_used
                /\ \A q \in Pids \ {CurrentSeat} : hand'[q] = hand[q]
                /\ waiting_for_eight'
                     => /\ eight_draw_used'
                        /\ current_player_index' = current_player_index
                        /\ hand'[CurrentSeat] \ hand[CurrentSeat] \subseteq eight_drawn_cards'
          /\ \A p \in Pids :
               (RefuseDrawCard(p) /\ p = CurrentSeat /\ waiting_for_eight)
                 => /\ eight_draw_used
                    /\ UNCHANGED <<seatVars, tableVars, lobbyVars, roomVars, endVars>>
          /\ \A p \in Pids :
               (game_started /\ waiting_for_eight /\ eight_draw_used /\ p = CurrentSeat)
                 => ~handle_draw_card(p)
         ]_vars

\* The seat drew a card that matches nothing and then one that matches, was
\* refused a second draw, and may play either.
C26_Witness ==
    /\ game_started
    /\ waiting_for_eight
    /\ eight_draw_used
    /\ error = "Eight draw already used"
    /\ Cardinality(eight_drawn_cards) >= 2
    /\ \E c \in eight_drawn_cards :
          /\ ~matches_eight(c, Top(discard_pile))
          /\ ~can_play_card(c, Top(discard_pile), chosen_suit, FALSE)

\* C27: the skip_turn of the current seat is accepted iff a card was drawn
\* this turn and no 8-chain is pending.  An accepted skip moves the turn
\* pointer on by one seat modulo the number of seats, clears
\* card_drawn_this_turn and changes no hand, deck, discard pile or score; a
\* refused one finds the flag clear or the chain pending.
C27_Skip ==
    /\ [](  (room_exists /\ game_started /\ moves < MaxMoves
               /\ CurrentSeat # NoPlayer /\ Sends(CurrentSeat))
            => (ENABLED handle_skip_turn(CurrentSeat)
                  <=> (card_drawn_this_turn /\ ~waiting_for_eight)))
    /\ [][/\ \A p \in Pids :
               handle_skip_turn(p)
                 => /\ p = CurrentSeat
                    /\ card_drawn_this_turn /\ ~waiting_for_eight
                    /\ current_player_index' = (current_player_index + 1) % Len(players)
                    /\ ~card_drawn_this_turn'
                    /\ UNCHANGED <<hand, deck, discard_pile, score>>
          /\ (game_started /\ ~waiting_for_eight /\ moves' = moves + 1
                /\ hand' = hand /\ discard_pile' = discard_pile)
             => /\ card_drawn_this_turn
                /\ current_player_index' = (current_player_index + 1) % Len(players)
                /\ ~card_drawn_this_turn'
                /\ UNCHANGED <<deck, score>>
          /\ \A p \in Pids :
               (RefuseSkipTurn(p) /\ p = CurrentSeat)
                 => /\ ~card_drawn_this_turn \/ waiting_for_eight
                    /\ UNCHANGED <<seatVars, tableVars, lobbyVars, roomVars, endVars>>
         ]_vars

\* The last seat of the list skipped after its draw: the turn is back at the
\* first seat, which was refused a skip before any draw.
C27_Witness ==
    /\ game_started
    /\ ~card_drawn_this_turn
    /\ ~waiting_for_eight
    /\ current_player_index = 0
    /\ moves >= 2
    /\ Len(discard_pile) = 1
    /\ Cardinality(hand[players[Len(players)]]) = HandSize + 1
    /\ error = "Draw a card from the deck first"

\* C28: replenish_deck changes the room only when the deck is empty and the
\* discard pile holds more than one card.  Then the new deck holds the
\* discards below the top one, each once, in some order, and the discard
\* pile is the former top card alone.  Otherwise deck and discard pile are
\* as they were.  No hand changes.
C28_Replenish ==
    [][/\ hand' = hand
       /\ IF deck = <<>> /\ Len(discard_pile) > 1
          THEN /\ Len(deck') = Len(discard_pile) - 1
               /\ SeqToSet(deck')
                    = {discard_pile[k] : k \in 1 .. Len(discard_pile) - 1}
               /\ discard_pile' = <<discard_pile[Len(discard_pile)]>>
          ELSE /\ deck' = deck
               /\ discard_pile' = discard_pile
      ]_vars

\* The discards under the top card became the deck.
C28_Witness ==
    /\ moves >= 1
    /\ Len(discard_pile) = 1
    /\ Len(deck) = MaxDiscardIn - 1
    /\ \A k \in 1 .. Len(deck) : deck[k] # discard_pile[1]

\* C29: chosen_suit gets a suit only from a Q: the suit sent with a Q that
\* does not win the round, or a suit picked by start_game when the first
\* card on the table is a Q.  Every accepted play of another card clears
\* it; a Q that wins leaves it; draw_card and skip_turn leave it, and a suit
\* once set changes only with a play, with the end of the round or with a
\* new deal.  While it is set, a card that is no Q is accepted outside an
\* 8-chain only if it has that suit or the rank of the top card.
C29_ChosenSuit ==
    [][LET played == /\ game_started /\ gen' = gen
                     /\ discard_pile # <<>> /\ discard_pile' # <<>>
                     /\ Top(discard_pile') # Top(discard_pile)
           won == ge_pc' # ge_pc
           dealt == gen' = gen + 1
       IN  /\ chosen_suit' \notin {chosen_suit, NoSuit}
                => /\ chosen_suit' \in SuitChoices
                   /\ \/ played /\ ~won /\ Top(discard_pile').rank = "Q"
                      \/ dealt /\ Top(discard_pile').rank = "Q"
           /\ (played /\ Top(discard_pile').rank # "Q") => chosen_suit' = NoSuit
           /\ (played /\ won /\ Top(discard_pile').rank = "Q")
                => chosen_suit' = chosen_suit
           /\ (dealt /\ Top(discard_pile').rank = "Q") => chosen_suit' \in SuitChoices
           /\ \A p \in Pids :
                (handle_draw_card(p) \/ handle_skip_turn(p))
                  => chosen_suit' = chosen_suit
           /\ (chosen_suit # NoSuit /\ chosen_suit' # chosen_suit)
                => played \/ dealt \/ (game_started /\ ~game_started')
           /\ (played /\ ~waiting_for_eight /\ chosen_suit # NoSuit
                 /\ Top(discard_pile').rank # "Q")
                => \/ Top(discard_pile').suit = chosen_suit
                   \/ Top(discard_pile').rank = Top(discard_pile).rank
      ]_vars

\* A Q was played with a suit that is not its own; the next seat drew a
\* card and skipped, and the suit still stands.
C29_Witness ==
    /\ game_started
    /\ moves >= 3
    /\ ~card_drawn_this_turn
    /\ discard_pile # <<>>
    /\ Top(discard_pile).rank = "Q"
    /\ chosen_suit \in SuitChoices
    /\ chosen_suit # Top(discard_pile).suit
    /\ Len(discard_pile) = 2
    /\ \E p \in Seated : Cardinality(hand[p]) = HandSize + 1

\* C30: start_game treats the first card on the table as a card the
\* dealer played.  The seat after the dealer takes 1 card for a 6 and 2
\* for a 7 (fewer only if the deck runs out) and is passed over, as it is
\* for an A; an 8 of the 52-card deck leaves it in an 8-chain with its draw
\* unused; a Q sets a suit.  Any other card, and an 8 of the 36-card deck,
\* has no effect.  Every other seat holds HandSize cards.  With two seats
\* and a 7 the seat that is not the dealer holds HandSize + 2 cards and the
\* dealer is the current seat.
C30_FirstCard ==
    [][gen' = gen + 1 =>
         LET n == Len(players')
             first_card == Top(discard_pile')
             after == (dealer_index' + 1) % n
             seat == PlayerAt(players', after)
             got == Cardinality(hand'[seat]) - HandSize
             k == IF first_card.rank = "6" THEN 1
                  ELSE IF first_card.rank = "7" THEN 2 ELSE 0
             chain == first_card.rank = "8" /\ deck_size' = 52
         IN  /\ game_started'
             /\ discard_pile' = <<first_card>>
             /\ \A q \in SeqToSet(players') \ {seat} : Cardinality(hand'[q]) = HandSize
             /\ got = k \/ (0 <= got /\ got < k /\ deck' = <<>>)
             /\ current_player_index'
                  = IF first_card.rank \in {"6", "7", "A"} THEN (after + 1) % n ELSE after
             /\ current_player_index' = turn_after_play(first_card.rank, dealer_index', n)
             /\ chain => waiting_for_eight' /\ ~eight_draw_used'
             /\ ~chain => /\ waiting_for_eight' = waiting_for_eight
                          /\ eight_draw_used' = eight_draw_used
             /\ first_card.rank = "Q" => chosen_suit' \in SuitChoices
             /\ first_card.rank # "Q" => chosen_suit' = chosen_suit
             /\ (n = 2 /\ first_card.rank = "7" /\ Len(deck') + got >= 2)
                  => /\ Cardinality(hand'[seat]) = HandSize + 2
                     /\ seat # PlayerAt(players', dealer_index')
                     /\ current_player_index' = dealer_index'
      ]_vars

\* Two seats and a 7 as the first card: the seat that is not the dealer
\* holds two cards more and the dealer is to move.
C30_Witness ==
    /\ game_started
    /\ moves = 0
    /\ Len(players) = 2
    /\ Len(discard_pile) = 1
    /\ Top(discard_pile).rank = "7"
    /\ current_player_index = dealer_index
    /\ Cardinality(hand[PlayerAt(players, (dealer_index + 1) % 2)]) = HandSize + 2
    /\ Cardinality(hand[PlayerAt(players, dealer_index)]) = HandSize

\* ---------------------------------------------------------- claim C31
\* The cards of hand h that the rules allow on the table as it is.
LegalCards(h) ==
    {c \in h :
        IF waiting_for_eight
        THEN c.rank = "2" \/ c \in eight_drawn_cards
        ELSE \/ c.rank = "Q"
             \/ c.rank = Top(discard_pile).rank
             \/ IF chosen_suit # NoSuit THEN c.suit = chosen_suit
                ELSE c.suit = Top(discard_pile).suit}

\* The ranks a bot plays first.
FirstRanks == {"7", "6", "A"} \cup (IF deck_size = 52 THEN {"8"} ELSE {})

\* C31: every card make_bot_move submits is one handle_play_card accepts,
\* and the card a bot plays is a legal card of rank 7, 6, A (or 8 with 52
\* cards) if the bot holds one; otherwise, outside an 8-chain, a legal card
\* of the most points; otherwise a legal card.
C31_BotChoice ==
    /\ [](\A b \in Pids :
            (bot_tasks[b] > 0 /\ bot_checks(b)) =>
                \A c \in cards_to_play(b) : play_card_error(b, c) = NoError)
    /\ [][\A b \in Pids :
            (BotWake(b) /\ hand[b] \ hand'[b] # {}) =>
               \A c \in hand[b] \ hand'[b] :
                  LET legal == LegalCards(hand[b])
                      first == {d \in legal : d.rank \in FirstRanks}
                  IN  /\ c \in legal
                      /\ first # {} => c \in first
                      /\ (first = {} /\ ~waiting_for_eight) =>
                            \A d \in legal :
                               RulePoints(d.suit, d.rank) <= RulePoints(c.suit, c.rank)]_vars

\* A bot about to move holds a legal card of a rank it plays first and a
\* legal card worth more points.
C31_Witness ==
    \E b \in Pids :
        /\ bot_tasks[b] > 0 /\ bot_checks(b)
        /\ \E c, d \in LegalCards(hand[b]) :
              /\ c.rank \in FirstRanks /\ d.rank \notin FirstRanks
              /\ RulePoints(d.suit, d.rank) > RulePoints(c.suit, c.rank)

\* ---------------------------------------------------------- claim C32
\* C32: a call of a bot whose turn it is outside an 8-chain, with no legal
\* card in its hand and no card drawn in the turn, is followed by a move of
\* the bot (the draw, after which the bot plays or skips).
C32_BotDrawsThenEnds ==
    \A b \in Pids : \A m \in 0 .. MaxMoves - 1 :
        (/\ BotToMove(b) /\ bot_tasks[b] > 0
         /\ discard_pile # <<>> /\ ~waiting_for_eight
         /\ LegalCards(hand[b]) = {} /\ ~card_drawn_this_turn
         /\ moves = m) ~> (moves # m)

\* ---------------------------------------------------------- claim C33
\* C33: no step taken while the game is started changes the ordered seat
\* list of the room (the kicks of handle_game_end, which end the round,
\* aside).
C33_SeatsFixed ==
    [][(game_started /\ \A w \in Pids : ge_pc[w] = "idle") =>
          players' = players]_vars

DrawAccepted ==
    IF waiting_for_eight THEN ~eight_draw_used
    ELSE draw_card_refused(card_drawn_this_turn, deck, discard_pile) = {}

\* C35: in a started game that is not being tallied, the server accepts at
\* least one request of the current seat: a card of its hand, a draw, or a
\* skip.
C35_SomeMoveAccepted ==
    (/\ room_exists /\ game_started
     /\ \A w \in Pids : ge_pc[w] = "idle"
     /\ current_player_index < Len(players)) =>
        \/ \E c \in hand[CurrentSeat] : play_card_error(CurrentSeat, c) = NoError
        \/ DrawAccepted
        \/ skip_turn_error(CurrentSeat) = NoError

\* ---------------------------------------------------------- claim C36
\* C36: start_game deals (gen counts its executions) only in a room whose
\* game is not started.
C36_NoRestart ==
    [][gen' # gen => ~game_started]_vars

\* ---------------------------------------------------------- claim C37
\* C37: handle_game_end tallies a round (begins, with w the winner it was
\* called for) only while no handle_game_end of the room is between its
\* tally and its reset of game_started.
C37_OneTally ==
    [][\A w \in Pids :
          (ge_pc[w] = "idle" /\ ge_pc'[w] # "idle") =>
             \A v \in Pids : ge_pc[v] = "idle"]_vars

C39_EightState ==
    /\ eight_draw_used => waiting_for_eight
    /\ eight_drawn_cards # {} =>
          /\ waiting_for_eight /\ eight_draw_used
          /\ current_player_index < Len(players)
          /\ eight_drawn_cards \subseteq hand[CurrentSeat]

\* ---------------------------------------------------------- claim C40
\* C40: in a started game that is not being tallied every seat holds a
\* card; and the play by which a hand becomes empty ends the round, with
\* card_drawn_this_turn false.
C40_HandsNotEmpty ==
    /\ []((room_exists /\ game_started /\ \A w \in Pids : ge_pc[w] = "idle") =>
             \A p \in Seated : hand[p] # {})
    /\ [][\A p \in Seated :
            (/\ game_started /\ game_started' /\ gen' = gen
             /\ hand[p] # {} /\ hand'[p] = {} /\ p \in Seated') =>
               (ge_pc'[p] = "results" /\ ~card_drawn_this_turn')]_vars

====
